---- MODULE Spec2Model ----
(***************************************************************************)
(* Model of the voice pipeline of python-voice-model-main:                 *)
(*   - ConversationStateProcessor   (Service/voice_service.py)             *)
(*   - OrderKnowledgeProcessor._add_system_message                         *)
(*   - TranscriptionService, the process-wide transcript hub               *)
(*     (Service/transcription_service.py)                                  *)
(* Each component has its own specification over its own variables; the    *)
(* other components' variables are left unchanged by it.                   *)
(***************************************************************************)
EXTENDS Integers, Sequences, FiniteSets, TLC

\* ------------------------------------------------------------------ bounds
\* frames fed to one ConversationStateProcessor
MaxFrames == 4
\* calls of _add_system_message on one OrderKnowledgeProcessor
MaxCalls == 4
\* calls of TranscriptionService.add_message
MaxAppends == 3
\* calls of add_message made while observers connect and disconnect
MaxHubCalls == 2
\* words a text given to _extract_order_number is put together from
MaxTokens == 4
\* frames given to one OrderKnowledgeProcessor
MaxInjectorFrames == 3
\* frames given to the two TranscriptionProcessors of a session together
MaxRecorderFrames == 4
\* frames given to the five custom processors of a session together
MaxStageFrames == 3
\* calls of OrderService.get_order_by_id by one client
MaxOrderCalls == 3
\* frames the voice sessions receive from their transports, all together
MaxSessionFrames == 2
\* calls of HealthService.check_health
MaxHealthChecks == 3

\* Python's None
None == "None"

VARIABLES
    \* ConversationStateProcessor
    state,                 \* self._state
    seen,                   \* frames given to process_frame, in order
    pushed,                 \* what push_frame was called with, in order
    \* OrderKnowledgeProcessor
    context,                \* self._context, the messages of the LLM context
    last_system_messages,   \* self._last_system_messages
    calls,                  \* the (content, tag) of every _add_system_message call
    \* TranscriptionService
    messages,               \* cls.messages
    connections,            \* cls.connections
    tasks,                  \* the _send_update tasks created and not yet run
    handler,                \* where each websocket's endpoint coroutine is
    received,               \* the payloads written to each websocket, in order
    clock,                  \* number of add_message calls so far
    join,                   \* what the hub held when each websocket was added
    resetAt,                \* the clock when the subscriber set last became empty
    alone,                  \* the times of the entries appended with no connection
    unstarted,              \* how many of the newest tasks have not yet called send_text
    \* OrderKnowledgeProcessor._extract_order_number
    text,                   \* the text given to the function, as its characters
    ntokens,                \* how many words the text was put together from
    extracted,              \* what the function returned for the text
    \* OrderKnowledgeProcessor.process_frame
    awaiting_order_number,       \* self._awaiting_order_number
    last_detected_order_number,  \* self._last_detected_order_number
    injector_seen,               \* frames given to process_frame, in order
    injector_pushed,             \* what push_frame was called with, in order
    \* TranscriptionProcessor, one with role "user" and one with role "bot"
    bot_buffer,             \* self._bot_buffer of each
    recorder_seen,          \* frames given to process_frame of each, in order
    recorder_pushed,        \* what push_frame of each was called with, in order
    \* AudioLoggingProcessor
    audio_chunk_count,      \* self._audio_chunk_count
    total_audio_bytes,      \* self._total_audio_bytes
    audio_seen,             \* frames given to process_frame, in order
    audio_pushed,           \* what push_frame was called with, in order
    \* VoiceService
    groq_api_key,           \* cls._groq_api_key
    session,                \* each voice websocket and its endpoint coroutine
    \* a client of OrderService
    order_calls,            \* the ids get_order_by_id was called with, in order
    order_result,           \* what the last get_order_by_id returned
    summary,                \* what the last format_order_details returned
    \* the pipelines of the concurrent voice sessions
    pipes,                  \* for each session: its stages' fields and queues
    \* HealthService
    dataset,                \* what is at cls._data_path
    health_checks           \* the check_health calls made and their outcomes

trackerVars == <<state, seen, pushed>>
factVars == <<context, last_system_messages, calls>>
hubVars == <<messages, connections, tasks, handler, received, clock, join,
             resetAt, alone, unstarted>>
extractVars == <<text, ntokens, extracted>>
injectorVars == <<awaiting_order_number, last_detected_order_number,
                  injector_seen, injector_pushed>>
recorderVars == <<bot_buffer, recorder_seen, recorder_pushed>>
audioVars == <<audio_chunk_count, total_audio_bytes, audio_seen, audio_pushed>>
endpointVars == <<groq_api_key, session>>
orderVars == <<order_calls, order_result, summary>>
sessionVars == <<pipes>>
healthVars == <<dataset, health_checks>>
vars == <<trackerVars, factVars, hubVars, extractVars, injectorVars, recorderVars,
          audioVars, endpointVars, orderVars, sessionVars, healthVars>>

\* What an action of one component leaves alone: every other component.
exceptTrackerVars ==
    <<factVars, hubVars, extractVars, injectorVars, recorderVars,
      audioVars, endpointVars, orderVars, sessionVars, healthVars>>
exceptFactVars ==
    <<trackerVars, hubVars, extractVars, injectorVars, recorderVars,
      audioVars, endpointVars, orderVars, sessionVars, healthVars>>
exceptHubVars ==
    <<trackerVars, factVars, extractVars, injectorVars, recorderVars,
      audioVars, endpointVars, orderVars, sessionVars, healthVars>>
exceptExtractVars ==
    <<trackerVars, factVars, hubVars, injectorVars, recorderVars,
      audioVars, endpointVars, orderVars, sessionVars, healthVars>>
exceptInjectorVars ==
    <<trackerVars, hubVars, extractVars, recorderVars, audioVars, endpointVars,
      orderVars, sessionVars, healthVars>>
\* the TranscriptionProcessor calls add_message of the hub
exceptRecorderVars ==
    <<trackerVars, factVars, extractVars, injectorVars, audioVars, endpointVars,
      orderVars, sessionVars, healthVars>>
exceptAudioVars ==
    <<trackerVars, factVars, hubVars, extractVars, injectorVars, recorderVars,
      endpointVars, orderVars, sessionVars, healthVars>>
exceptEndpointVars ==
    <<trackerVars, factVars, hubVars, extractVars, injectorVars, recorderVars,
      audioVars, orderVars, sessionVars, healthVars>>
exceptOrderVars ==
    <<trackerVars, factVars, hubVars, extractVars, injectorVars, recorderVars,
      audioVars, endpointVars, sessionVars, healthVars>>
\* the TranscriptionProcessors of a session call add_message of the hub
exceptSessionVars ==
    <<trackerVars, factVars, extractVars, injectorVars, recorderVars,
      audioVars, endpointVars, orderVars, healthVars>>
exceptHealthVars ==
    <<trackerVars, factVars, hubVars, extractVars, injectorVars, recorderVars,
      audioVars, endpointVars, orderVars, sessionVars>>

\* =================================================== ConversationStateProcessor

DOWNSTREAM == "DOWNSTREAM"
UPSTREAM == "UPSTREAM"
Directions == {DOWNSTREAM, UPSTREAM}

\* The frame classes process_frame tests for, and one it does not (TextFrame).
FrameKinds ==
    {"StartFrame", "UserStartedSpeakingFrame", "UserStoppedSpeakingFrame",
     "BotStartedSpeakingFrame", "BotStoppedSpeakingFrame", "TextFrame"}

Frames == [kind : FrameKinds, direction : Directions]

\* json.dumps({"type": "state", "value": state}) in an OutputTransportMessageFrame
StateMessage(value) ==
    [kind |-> "OutputTransportMessageFrame", type |-> "state", value |-> value,
     direction |-> DOWNSTREAM]

\* the if/elif chain of process_frame: the state to notify, None when no
\* branch is taken
\* variant: the states of the two bot frames exchanged
StateOfSwapped(frame) ==
    IF frame.kind = "StartFrame" /\ frame.direction = DOWNSTREAM THEN "listening"
    ELSE IF frame.kind = "UserStartedSpeakingFrame" /\ frame.direction = DOWNSTREAM
         THEN "listening"
    ELSE IF frame.kind = "UserStoppedSpeakingFrame" /\ frame.direction = DOWNSTREAM
         THEN "processing"
    ELSE IF frame.kind = "BotStartedSpeakingFrame" THEN "listening"
    ELSE IF frame.kind = "BotStoppedSpeakingFrame" THEN "responding"
    ELSE None

\* variant: no branch looks at the direction
StateOfAnyDirection(frame) ==
    IF frame.kind = "StartFrame" THEN "listening"
    ELSE IF frame.kind = "UserStartedSpeakingFrame" THEN "listening"
    ELSE IF frame.kind = "UserStoppedSpeakingFrame" THEN "processing"
    ELSE IF frame.kind = "BotStartedSpeakingFrame" THEN "responding"
    ELSE IF frame.kind = "BotStoppedSpeakingFrame" THEN "listening"
    ELSE None

StateOf(frame) ==
    IF frame.kind = "StartFrame" /\ frame.direction = DOWNSTREAM THEN "listening"
    ELSE IF frame.kind = "UserStartedSpeakingFrame" /\ frame.direction = DOWNSTREAM
         THEN "listening"
    ELSE IF frame.kind = "UserStoppedSpeakingFrame" /\ frame.direction = DOWNSTREAM
         THEN "processing"
    ELSE IF frame.kind = "BotStartedSpeakingFrame" THEN "responding"
    ELSE IF frame.kind = "BotStoppedSpeakingFrame" THEN "listening"
    ELSE None

\* _notify(new) on a processor whose self._state is cur: the new self._state
\* and the frames pushed
\* variant: no early return on an unchanged state
NotifyAlways(cur, new) ==
    [state |-> new, pushes |-> <<StateMessage(new)>>]

Notify(cur, new) ==
    IF cur = new
    THEN [state |-> cur, pushes |-> <<>>]
    ELSE [state |-> new, pushes |-> <<StateMessage(new)>>]

\* what one process_frame call pushes: the transport message it made in
\* reaction to the frame, if any, and push_frame(frame, direction) as the last
\* statement
\* variant: the frame is forwarded first
ForwardThen(reaction, frame) == <<frame>> \o reaction

ThenForward(reaction, frame) == reaction \o <<frame>>

\* process_frame(frame, direction): the notification, if any, then the frame
TrackerProcessFrame(frame) ==
    /\ Len(seen) < MaxFrames
    /\ LET target == StateOf(frame)
           n == IF target = None
                THEN [state |-> state, pushes |-> <<>>]
                ELSE Notify(state, target)
       IN /\ state' = n.state
          /\ pushed' = pushed \o ThenForward(n.pushes, frame)
    /\ seen' = Append(seen, frame)
    /\ UNCHANGED exceptTrackerVars

TrackerInit ==
    /\ state = None
    /\ seen = <<>>
    /\ pushed = <<>>

TrackerNext == \E frame \in Frames : TrackerProcessFrame(frame)

\* ====================================== OrderKnowledgeProcessor: system facts

\* the three tags process_frame uses
Tags == {"order-knowledge-base", "order-lookup", "order-not-found"}
\* a tag that is None or empty: `if tag` is false for it
NoTag == None
Contents == {"c1", "c2"}

\* the knowledge_base message websocket_endpoint builds the context with
KnowledgeBase == [role |-> "system", content |-> "knowledge_base"]

\* self._last_system_messages.get(tag)
Get(last, tag) == last[tag]

\* _add_system_message(content, tag) on a context ctx and a mapping last
\* variant: the content is not stored under the tag
AddSystemMessageNoStore(ctx, last, content, tag) ==
    IF tag # NoTag /\ Get(last, tag) = content
    THEN [context |-> ctx, last |-> last]
    ELSE [context |-> Append(ctx, [role |-> "system", content |-> content]),
          last |-> last]

\* variant: no early return, every call appends
AddSystemMessageNoDedup(ctx, last, content, tag) ==
    [context |-> Append(ctx, [role |-> "system", content |-> content]),
     last |-> IF tag # NoTag THEN [last EXCEPT ![tag] = content] ELSE last]

AddSystemMessage(ctx, last, content, tag) ==
    IF tag # NoTag /\ Get(last, tag) = content
    THEN [context |-> ctx, last |-> last]
    ELSE [context |-> Append(ctx, [role |-> "system", content |-> content]),
          last |-> IF tag # NoTag THEN [last EXCEPT ![tag] = content] ELSE last]

InjectFact(content, tag) ==
    /\ Len(calls) < MaxCalls
    /\ LET r == AddSystemMessage(context, last_system_messages, content, tag)
       IN /\ context' = r.context
          /\ last_system_messages' = r.last
    /\ calls' = Append(calls, [content |-> content, tag |-> tag])
    /\ UNCHANGED exceptFactVars

FactInit ==
    /\ context = <<KnowledgeBase>>
    /\ last_system_messages = [t \in Tags |-> None]
    /\ calls = <<>>

FactNext == \E content \in Contents, tag \in Tags \cup {NoTag} : InjectFact(content, tag)


\* ======================================================= TranscriptionService

\* the websockets that connect to the transcription endpoint
WebSockets == {"A", "B"}
Speakers == {"user", "bot"}

\* what ends the try block of transcription_socket_endpoint:
\* WebSocketDisconnect, another Exception, the cancellation of the handler
Exits == {"disconnected", "error", "cancelled"}

\* {"type": type, "message": message, "time": now}; the message is the text
\* as its characters, the time is the number of the add_message call
Entry(type, message, time) == [type |-> type, message |-> message, time |-> time]
\* the texts add_message is called with when no TranscriptionProcessor calls it
Utterances == {<<"h", "i">>}

RECURSIVE Orders(_)
\* list(cls.connections): the members of a set in some order
Orders(S) ==
    IF S = {} THEN {<<>>}
    ELSE UNION {{<<w>> \o o : o \in Orders(S \ {w})} : w \in S}

\* the tasks add_message creates for a payload: one per connection of the list
\* variant: the payload is the new entry alone
NewTasksLatestOnly(order, payload) ==
    [i \in 1..Len(order) |-> [ws |-> order[i], payload |-> <<payload[Len(payload)]>>]]

NewTasks(order, payload) ==
    [i \in 1..Len(order) |-> [ws |-> order[i], payload |-> payload]]

\* cls.messages.append(entry)
\* variant: the list keeps the newest entry only
AppendedKeepLast(msgs, entry) == <<entry>>

Appended(msgs, entry) == Append(msgs, entry)

\* cls.messages after line 18, which runs before cls.connections is tested
\* variant: the entry is stored only when a connection is there to get it
AfterAppendHeardOnly(conns, msgs, entry) ==
    IF conns = {} THEN msgs ELSE Appended(msgs, entry)

AfterAppend(conns, msgs, entry) == Appended(msgs, entry)

\* add_message(type, message) on the fields of the hub
HubAppend(type, message) ==
    /\ clock < MaxAppends
    /\ clock' = clock + 1
    /\ messages' = AfterAppend(connections, messages, Entry(type, message, clock + 1))
    /\ IF connections # {}
       THEN \E order \in Orders(connections) :
                tasks' = tasks \o NewTasks(order, messages')
       ELSE tasks' = tasks
    /\ alone' = IF connections = {} THEN alone \cup {clock + 1} ELSE alone
    /\ unstarted' = unstarted + Cardinality(connections)
    /\ UNCHANGED <<connections, handler, received, join, resetAt>>

\* add_message(type, message) called from outside the modelled stages
AddMessage(type, message) ==
    /\ clock < MaxHubCalls
    /\ HubAppend(type, message)
    /\ UNCHANGED exceptHubVars

\* the event loop starts the tasks in the order they were created, some time
\* after add_message returned: the position in the queue of the task that
\* starts next, the oldest of the n tasks that have not started
NextToStart(queue, n) == Len(queue) - n + 1

\* a started task waits in `await websocket.send_text(payload)` and the sends
\* end in any order: the positions in the queue of the tasks whose send may
\* end next
Runnable(queue, n) == 1..(Len(queue) - n)

\* a task created by add_message gets its first turn: it calls
\* websocket.send_text(payload), whether or not the websocket is still in
\* cls.connections
TaskStarts ==
    /\ unstarted > 0
    /\ unstarted' = unstarted - 1
    /\ UNCHANGED <<messages, connections, tasks, handler, received, clock, join,
                   resetAt, alone>>
    /\ UNCHANGED exceptHubVars

Without(queue, i) == [j \in 1..(Len(queue) - 1) |-> IF j < i THEN queue[j] ELSE queue[j + 1]]

\* a websocket takes a send while its handler has not closed it
SocketOpen(w) == handler[w] \in {"sending", "receiving"}

\* the queue after the send of task i raised: the exception is caught inside
\* the task, every other task stays
\* variant: the failure ends the fan-out of that payload
AfterSendErrorAbort(queue, i) ==
    SelectSeq(Without(queue, i), LAMBDA t : t.payload # queue[i].payload)

AfterSendError(queue, i) == Without(queue, i)

\* cls.messages after the except clause of _send_update, which only discards
\* the websocket
\* variant: the except clause clears the messages when no connection is left
MessagesClearedOnSendError(conns, msgs) == IF conns = {} THEN <<>> ELSE msgs

MessagesAfterSendError(conns, msgs) == msgs

\* _send_update(websocket, payload): send_text returns
SendUpdate ==
    \E i \in Runnable(tasks, unstarted) :
        LET t == tasks[i]
        IN /\ SocketOpen(t.ws)
           /\ received' = [received EXCEPT ![t.ws] = Append(@, t.payload)]
           /\ tasks' = Without(tasks, i)
           /\ UNCHANGED <<messages, connections, handler, clock, join, resetAt, alone, unstarted>>
           /\ UNCHANGED exceptHubVars

\* _send_update(websocket, payload): send_text raises
SendUpdateFails ==
    \E i \in Runnable(tasks, unstarted) :
        LET t == tasks[i]
        IN /\ connections' = connections \ {t.ws}
           /\ tasks' = AfterSendError(tasks, i)
           /\ messages' = MessagesAfterSendError(connections \ {t.ws}, messages)
           /\ UNCHANGED <<handler, received, clock, join, resetAt, alone, unstarted>>
           /\ UNCHANGED exceptHubVars

\* the finally block of transcription_socket_endpoint for websocket w:
\* discard, then clear the messages when no connection is left
\* variant: the messages are never cleared
FinallyNoClear(conns, msgs, w, cause) ==
    [connections |-> conns \ {w}, messages |-> msgs]

\* variant: the cleanup sits in the except clauses, not in finally
FinallyOnlyWhenCaught(conns, msgs, w, cause) ==
    IF cause = "cancelled"
    THEN [connections |-> conns, messages |-> msgs]
    ELSE [connections |-> conns \ {w},
          messages |-> IF conns \ {w} = {} THEN <<>> ELSE msgs]

Finally(conns, msgs, w, cause) ==
    [connections |-> conns \ {w},
     messages |-> IF conns \ {w} = {} THEN <<>> ELSE msgs]

\* transcription_socket_endpoint: accept() raises, the websocket is never added
AcceptFails(w) ==
    /\ handler[w] = "idle"
    /\ handler' = [handler EXCEPT ![w] = "closed"]
    /\ UNCHANGED <<messages, connections, tasks, received, clock, join, resetAt, alone, unstarted>>
    /\ UNCHANGED exceptHubVars

\* what the endpoint sends a websocket it has just added
InitialSnapshot(msgs) == IF msgs # <<>> THEN <<msgs>> ELSE <<>>

\* transcription_socket_endpoint, accept returning: the websocket is added
\* and, when there are messages, the send_text of the snapshot is started
\* (payload json.dumps(cls.messages) of that moment) and awaited; with no
\* messages the handler goes on to receive_text
Subscribe(w) ==
    /\ handler[w] = "idle"
    /\ handler' = [handler EXCEPT ![w] =
                      IF InitialSnapshot(messages) = <<>> THEN "receiving" ELSE "sending"]
    /\ connections' = connections \cup {w}
    /\ join' = [join EXCEPT ![w] = [joined |-> TRUE, messages |-> messages, time |-> clock,
                                    resetAt |-> resetAt, failed |-> FALSE]]
    /\ UNCHANGED <<messages, tasks, received, clock, resetAt, alone, unstarted>>
    /\ UNCHANGED exceptHubVars

\* the send_text of the snapshot returns: the handler goes on to receive_text
SnapshotSent(w) ==
    /\ handler[w] = "sending"
    /\ handler' = [handler EXCEPT ![w] = "receiving"]
    /\ received' = [received EXCEPT ![w] = @ \o InitialSnapshot(join[w].messages)]
    /\ UNCHANGED <<messages, connections, tasks, clock, join, resetAt, alone, unstarted>>
    /\ UNCHANGED exceptHubVars

\* the send_text of the snapshot raises, or the handler is cancelled while it
\* waits: the except clause, then the finally block
SubscribeSendFails(w) ==
    /\ handler[w] = "sending"
    /\ \E cause \in Exits :
         LET f == Finally(connections, messages, w, cause)
         IN /\ handler' = [handler EXCEPT ![w] = "closed"]
            /\ connections' = f.connections
            /\ messages' = f.messages
            /\ resetAt' = IF connections \ {w} = {} THEN clock ELSE resetAt
    /\ join' = [join EXCEPT ![w].failed = TRUE]
    /\ UNCHANGED <<tasks, received, clock, alone, unstarted>>
    /\ UNCHANGED exceptHubVars

\* receive_text raises WebSocketDisconnect or another Exception, or the
\* handler is cancelled: the finally block
HandlerExit(w) ==
    /\ handler[w] = "receiving"
    /\ \E cause \in Exits :
         LET f == Finally(connections, messages, w, cause)
         IN /\ handler' = [handler EXCEPT ![w] = "closed"]
            /\ connections' = f.connections
            /\ messages' = f.messages
            /\ resetAt' = IF connections \ {w} = {} THEN clock ELSE resetAt
    /\ UNCHANGED <<tasks, received, clock, join, alone, unstarted>>
    /\ UNCHANGED exceptHubVars

\* a websocket not added yet
NotJoined == [joined |-> FALSE, messages |-> <<>>, time |-> 0, resetAt |-> 0,
              failed |-> FALSE]

HubInit ==
    /\ messages = <<>>
    /\ connections = {}
    /\ tasks = <<>>
    /\ handler = [w \in WebSockets |-> "idle"]
    /\ received = [w \in WebSockets |-> <<>>]
    /\ clock = 0
    /\ join = [w \in WebSockets |-> NotJoined]
    /\ resetAt = 0
    /\ alone = {}
    /\ unstarted = 0

HubNext ==
    \/ \E type \in Speakers, message \in Utterances : AddMessage(type, message)
    \/ TaskStarts
    \/ SendUpdate
    \/ SendUpdateFails
    \/ \E w \in WebSockets : AcceptFails(w)
    \/ \E w \in WebSockets : Subscribe(w)
    \/ \E w \in WebSockets : SnapshotSent(w)
    \/ \E w \in WebSockets : SubscribeSendFails(w)
    \/ \E w \in WebSockets : HandlerExit(w)

\* ============================ OrderKnowledgeProcessor._extract_order_number

\* A text is the sequence of its characters.  Texts are put together from
\* these words, spaces and signs.
Str_order == <<"o", "r", "d", "e", "r">>
Str_Order == <<"O", "r", "d", "e", "r">>
Str_number == <<"n", "u", "m", "b", "e", "r">>
Str_no == <<"n", "o">>
Str_is == <<"i", "s">>
Tokens ==
    {Str_order, Str_Order, Str_number, Str_no, Str_is,
     <<".">>, <<"#">>, <<":">>, <<" ">>,
     <<"4", "2">>, <<"5", "5", "5">>, <<"1", "0", "0", "3">>}

DigitChars == {"0", "1", "2", "3", "4", "5", "6", "7", "8", "9"}
LetterChars ==
    {"a", "b", "c", "d", "e", "f", "g", "h", "i", "j", "k", "l", "m", "n",
     "o", "p", "q", "r", "s", "t", "u", "v", "w", "x", "y", "z", "O"}

\* \d, \s and \w of Python's re on the characters above
IsDigit(c) == c \in DigitChars
IsSpace(c) == c = " "
IsWord(c) == c \in DigitChars \cup LetterChars \cup {"_"}

\* str.lower() on one character (re.IGNORECASE compares case-folded)
Lower(c) == IF c = "O" THEN "o" ELSE c

\* the literal lit matches txt at position p, ignoring case
MatchLit(txt, p, lit) ==
    /\ p + Len(lit) - 1 <= Len(txt)
    /\ \A k \in 1..Len(lit) : Lower(txt[p + k - 1]) = lit[k]

\* positions after matching the literal from any position of P
AfterLit(txt, P, lit) == {p + Len(lit) : p \in {q \in P : MatchLit(txt, q, lit)}}

\* positions after matching \s* from any position of P
AfterSpaces(txt, P) ==
    {q \in 1..(Len(txt) + 1) :
        \E p \in P : p <= q /\ \A k \in p..(q - 1) : IsSpace(txt[k])}

\* positions after matching  order\s*(?:number|no\.?|#)?(?:\s*(?:is|:))?\s*
\* from position i (line 154-157)
AfterPrefix(txt, i) ==
    LET p1 == AfterLit(txt, {i}, Str_order)
        p2 == AfterSpaces(txt, p1)
        no == AfterLit(txt, p2, Str_no)
        p3 == p2 \cup AfterLit(txt, p2, Str_number) \cup no
                 \cup AfterLit(txt, no, <<".">>) \cup AfterLit(txt, p2, <<"#">>)
        s3 == AfterSpaces(txt, p3)
        p4 == p3 \cup AfterLit(txt, s3, Str_is) \cup AfterLit(txt, s3, <<":">>)
    IN  AfterSpaces(txt, p4)

\* the ends e of a match of \d{n,} that starts at p
DigitsFrom(txt, p, n) ==
    {e \in (p + n)..(Len(txt) + 1) : \A k \in p..(e - 1) : IsDigit(txt[k])}

\* \b at position p: exactly one side is a word character
Boundary(txt, p) ==
    LET before == p > 1 /\ IsWord(txt[p - 1])
        after == p <= Len(txt) /\ IsWord(txt[p])
    IN  before # after

Max(S) == CHOOSE x \in S : \A y \in S : y <= x
Min(S) == CHOOSE x \in S : \A y \in S : x <= y

NoMatch == [found |-> FALSE, number |-> <<>>]
Found(digits) == [found |-> TRUE, number |-> digits]

\* re.search(explicit_pattern, text, re.IGNORECASE): the leftmost start, the
\* digits taken greedily; .group(1) is the digits (lines 154-165)
ExplicitStarts(txt) ==
    {i \in {j \in 1..Len(txt) : MatchLit(txt, j, Str_order)} :
        \E p \in AfterPrefix(txt, i) : DigitsFrom(txt, p, 3) # {}}

ExplicitMatch(txt) ==
    LET starts == ExplicitStarts(txt)
    IN  IF starts = {} THEN NoMatch
        ELSE LET i == Min(starts)
                 p == Min({q \in AfterPrefix(txt, i) : DigitsFrom(txt, q, 3) # {}})
             IN  Found(SubSeq(txt, p, Max(DigitsFrom(txt, p, 3)) - 1))

\* where a match of  \b(\d{n,})\b  can start, and where one from p can end
BoundedStarts(txt, n) ==
    {p \in 1..Len(txt) :
        /\ IsDigit(txt[p])
        /\ Boundary(txt, p)
        /\ \E e \in DigitsFrom(txt, p, n) : Boundary(txt, e)}
BoundedEnds(txt, p, n) == {e \in DigitsFrom(txt, p, n) : Boundary(txt, e)}

FallbackTwoDigits(txt) ==
    LET starts == BoundedStarts(txt, 2)
    IN  IF starts = {} THEN NoMatch
        ELSE LET p == Min(starts)
             IN  Found(SubSeq(txt, p, Max(BoundedEnds(txt, p, 2)) - 1))

\* re.search(r"\b(\d{3,})\b", text): the leftmost start, the digits taken
\* greedily (lines 167-171)
FallbackMatch(txt) ==
    LET starts == BoundedStarts(txt, 3)
    IN  IF starts = {} THEN NoMatch
        ELSE LET p == Min(starts)
             IN  Found(SubSeq(txt, p, Max(BoundedEnds(txt, p, 3)) - 1))

ExtractFallbackFirst(txt) ==
    IF FallbackMatch(txt).found THEN FallbackMatch(txt) ELSE ExplicitMatch(txt)

\* _extract_order_number (lines 153-173)
ExtractOrderNumber(txt) ==
    LET match == ExplicitMatch(txt)
    IN  IF match.found THEN match ELSE FallbackMatch(txt)

NotExtracted == [done |-> FALSE, result |-> NoMatch]

\* one more word of the text the function is about to be given
AddToken(t) ==
    /\ ntokens < MaxTokens
    /\ ~extracted.done
    /\ text' = text \o t
    /\ ntokens' = ntokens + 1
    /\ UNCHANGED extracted
    /\ UNCHANGED exceptExtractVars

\* the call _extract_order_number(text)
Extract ==
    /\ ~extracted.done
    /\ extracted' = [done |-> TRUE, result |-> ExtractOrderNumber(text)]
    /\ UNCHANGED <<text, ntokens>>
    /\ UNCHANGED exceptExtractVars

ExtractInit ==
    /\ text = <<>>
    /\ ntokens = 0
    /\ extracted = NotExtracted

ExtractNext == (\E t \in Tokens : AddToken(t)) \/ Extract

\* ================== OrderService (Service/order_service.py) and its store

OrderStatuses == {"pending", "processing", "shipped", "delivered", "cancelled"}

\* The store the service loads at start.  Amounts are in cents.
Products ==
    [id \in {1, 2} |->
        IF id = 1 THEN [id |-> 1, name |-> "Keyboard", price |-> 4999, sku |-> "KB-1"]
        ELSE [id |-> 2, name |-> "Mouse", price |-> 1999, sku |-> "MS-2"]]

OrdersById ==
    [id \in 1001..1005 |->
        [id |-> id,
         order_date |-> [date |-> "2024-03-0" \o ToString(id - 1000),
                         time |-> "10:30", seconds |-> "00"],
         total_amount |-> 10000 + id,
         status |-> CASE id = 1001 -> "pending"
                      [] id = 1002 -> "processing"
                      [] id = 1003 -> "shipped"
                      [] id = 1004 -> "delivered"
                      [] OTHER -> "cancelled"]]

\* the rows of order_items, in stored order; product 9 is not in the store
OrderItems ==
    <<[order_id |-> 1003, product_id |-> 1, quantity |-> 2, unit_price |-> 4999],
      [order_id |-> 1001, product_id |-> 9, quantity |-> 1, unit_price |-> 500],
      [order_id |-> 1003, product_id |-> 9, quantity |-> 3, unit_price |-> 250],
      [order_id |-> 1003, product_id |-> 2, quantity |-> 1, unit_price |-> 1500],
      [order_id |-> 1004, product_id |-> 2, quantity |-> 4, unit_price |-> 1999]>>

\* a dataclass instance or None
NoOrder == [found |-> FALSE]
GetOrderById(order_id) ==
    IF order_id \in DOMAIN OrdersById
    THEN [found |-> TRUE, order |-> OrdersById[order_id]]
    ELSE NoOrder

\* variant: a missing product ends the loop (break for continue)
RECURSIVE ItemDetailsStopAtMissing(_, _)
ItemDetailsStopAtMissing(items, order_id) ==
    IF items = <<>> THEN <<>>
    ELSE LET item == Head(items)
         IN  IF item.order_id # order_id
             THEN ItemDetailsStopAtMissing(Tail(items), order_id)
             ELSE IF item.product_id \notin DOMAIN Products THEN <<>>
             ELSE <<[product_name |-> Products[item.product_id].name,
                     quantity |-> item.quantity,
                     unit_price |-> item.unit_price,
                     total |-> item.unit_price * item.quantity,
                     sku |-> Products[item.product_id].sku]>>
                  \o ItemDetailsStopAtMissing(Tail(items), order_id)

RECURSIVE ItemDetails(_, _)
ItemDetails(items, order_id) ==
    IF items = <<>> THEN <<>>
    ELSE LET item == Head(items)
             rest == ItemDetails(Tail(items), order_id)
         IN  IF item.order_id # order_id \/ item.product_id \notin DOMAIN Products
             THEN rest
             ELSE <<[product_name |-> Products[item.product_id].name,
                     quantity |-> item.quantity,
                     unit_price |-> item.unit_price,
                     total |-> item.unit_price * item.quantity,
                     sku |-> Products[item.product_id].sku]>> \o rest

GetOrderItems(order_id) == ItemDetails(OrderItems, order_id)

\* f"${amount:.2f}" of an amount in cents
Money(cents) ==
    "$" \o ToString(cents \div 100) \o "."
        \o (IF cents % 100 < 10 THEN "0" ELSE "") \o ToString(cents % 100)

RECURSIVE ItemLines(_)
ItemLines(items) ==
    IF items = <<>> THEN <<>>
    ELSE LET item == Head(items)
         IN  <<"  - " \o item.product_name,
               "    Quantity: " \o ToString(item.quantity),
               "    Price: " \o Money(item.unit_price) \o " each",
               "    Subtotal: " \o Money(item.total)>> \o ItemLines(Tail(items))

\* "\n".join(lines)
RECURSIVE JoinLines(_)
JoinLines(lines) ==
    IF lines = <<>> THEN ""
    ELSE IF Len(lines) = 1 THEN lines[1]
    ELSE lines[1] \o "\n" \o JoinLines(Tail(lines))

RECURSIVE SumOfTotals(_)
SumOfTotals(items) ==
    IF items = <<>> THEN 0 ELSE Head(items).total + SumOfTotals(Tail(items))

\* variant: the total amount shown is the sum of the subtotals
OrderDetailLinesSummed(order) ==
    LET items == GetOrderItems(order.id)
    IN  <<"Order #" \o ToString(order.id) \o " Details:",
          "- Order Date: " \o order.order_date.date \o " " \o order.order_date.time,
          "- Status: " \o order.status,
          "- Total Amount: " \o Money(SumOfTotals(items)),
          "",
          "Items:">>
        \o (IF items = <<>> THEN <<"  No items recorded for this order.">>
            ELSE ItemLines(items))

OrderDetailLines(order) ==
    LET items == GetOrderItems(order.id)
    IN  <<"Order #" \o ToString(order.id) \o " Details:",
          "- Order Date: " \o order.order_date.date \o " " \o order.order_date.time,
          "- Status: " \o order.status,
          "- Total Amount: " \o Money(order.total_amount),
          "",
          "Items:">>
        \o (IF items = <<>> THEN <<"  No items recorded for this order.">>
            ELSE ItemLines(items))

FormatOrderDetails(order) == JoinLines(OrderDetailLines(order))

\* a client of the service: get_order_by_id, then format_order_details of
\* the order it got
OrderIds == {1001, 1002, 1003, 1004, 1005, 9999}
NoSummary == [made |-> FALSE, order_id |-> 0, lines |-> <<>>, text |-> ""]

CallGetOrderById(order_id) ==
    /\ Len(order_calls) < MaxOrderCalls
    /\ order_calls' = Append(order_calls, order_id)
    /\ order_result' = GetOrderById(order_id)
    /\ UNCHANGED summary
    /\ UNCHANGED exceptOrderVars

CallFormatOrderDetails ==
    /\ order_result.found
    /\ summary' = [made |-> TRUE,
                   order_id |-> order_result.order.id,
                   lines |-> OrderDetailLines(order_result.order),
                   text |-> FormatOrderDetails(order_result.order)]
    /\ UNCHANGED <<order_calls, order_result>>
    /\ UNCHANGED exceptOrderVars

OrderInit ==
    /\ order_calls = <<>>
    /\ order_result = NoOrder
    /\ summary = NoSummary

OrderNext ==
    \/ \E order_id \in OrderIds : CallGetOrderById(order_id)
    \/ CallFormatOrderDetails

\* ============================= OrderKnowledgeProcessor.process_frame

Str_track_my_order ==
    <<"t", "r", "a", "c", "k", " ", "m", "y", " ", "o", "r", "d", "e", "r">>
Str_check_my_order ==
    <<"c", "h", "e", "c", "k", " ", "m", "y", " ", "o", "r", "d", "e", "r">>
Str_update ==
    <<"u", "p", "d", "a", "t", "e">>
Str_status ==
    <<"s", "t", "a", "t", "u", "s">>

\* the keywords of _detect_order_intent (line 150)
IntentKeywords ==
    {Str_order \o <<" ">> \o Str_status, Str_track_my_order,
     Str_check_my_order, Str_order \o <<" ">> \o Str_update}

\* keyword in normalized
Contains(txt, w) == \E p \in 1..Len(txt) : MatchLit(txt, p, w)

\* _detect_order_intent (lines 146-151)
DetectOrderIntent(txt) ==
    \/ \E keyword \in IntentKeywords : Contains(txt, keyword)
    \/ Contains(txt, Str_order) /\ Contains(txt, Str_status)

\* str.strip()
RECURSIVE StripLeft(_)
StripLeft(txt) ==
    IF txt # <<>> /\ IsSpace(Head(txt)) THEN StripLeft(Tail(txt)) ELSE txt
RECURSIVE StripRight(_)
StripRight(txt) ==
    IF txt # <<>> /\ IsSpace(txt[Len(txt)])
    THEN StripRight(SubSeq(txt, 1, Len(txt) - 1)) ELSE txt
Strip(txt) == StripRight(StripLeft(txt))

\* int(order_number) and the f-string rendering of order_number
DigitString == <<"0", "1", "2", "3", "4", "5", "6", "7", "8", "9">>
RECURSIVE ToInt(_)
ToInt(digits) ==
    IF digits = <<>> THEN 0
    ELSE 10 * ToInt(SubSeq(digits, 1, Len(digits) - 1))
         + (CHOOSE d \in 0..9 : DigitString[d + 1] = digits[Len(digits)])
RECURSIVE Join(_)
Join(chars) == IF chars = <<>> THEN "" ELSE Head(chars) \o Join(Tail(chars))

\* _status_summary (lines 175-188)
StatusSummary(order_status) ==
    CASE order_status = "pending" ->
           "is pending and awaiting processing. Let the customer know we'll update them once it starts moving."
      [] order_status = "processing" ->
           "is being prepared right now. Share a reassuring update and let them know we'll notify them once it ships."
      [] order_status = "shipped" ->
           "has shipped. Review the provided delivery estimate and repeat it back accurately."
      [] order_status = "delivered" ->
           "has already been delivered. Confirm the delivery date and offer follow-up help if needed."
      [] order_status = "cancelled" ->
           "was cancelled. Clarify the cancellation and offer to help place a new order if appropriate."
      [] OTHER -> "has status " \o order_status \o "."

\* the three contents process_frame injects (lines 220-227, 234-237, 248-249)
LookupContent(order_number, order) ==
    "Order lookup result for order number " \o Join(order_number) \o ":\n"
    \o FormatOrderDetails(order) \o "\n"
    \o "Use ONLY this data when responding. State the order status and delivery expectation exactly as shown, and mention key items only if needed. Never invent additional products, dates, or amounts."
    \o " Hint for tone: " \o "Order " \o ToString(order.id) \o " "
    \o StatusSummary(order.status)

NotFoundContentAnonymous(order_number) ==
    "No order was found. Tell the user you couldn't locate that order in the dataset, and politely ask them to confirm the digits or share a different order number. Do not guess any details."

NotFoundContent(order_number) ==
    "No order was found with number " \o Join(order_number) \o "."
    \o " Tell the user you couldn't locate that order in the dataset, and politely ask them to confirm the digits or share a different order number. Do not guess any details."

AskContent ==
    "The user asked for an order status but has not yet provided an order number. Ask directly for the order number, mentioning you need it to fetch accurate details."

\* if order: self._awaiting_order_number = False (lines 215-216)
AwaitingKept(awaiting, order) == awaiting

AwaitingAfterLookup(awaiting, order) == IF order.found THEN FALSE ELSE awaiting

\* self._detect_order_intent(text) and not self._awaiting_order_number
ShouldAskAlways(intent, awaiting) == intent

ShouldAsk(intent, awaiting) == intent /\ ~awaiting

\* process_frame (lines 197-254) on the fields awaiting, last (the last
\* detected number), ctx and facts (the _last_system_messages); calls are
\* the _add_system_message calls made, pushes the push_frame calls made.

\* a path that only forwards the frame (lines 203-205, 241-242, 254)
\* variant: the frame is not pushed
OnlyForwardDropped(awaiting, last, ctx, facts, frame) ==
    [awaiting |-> awaiting, last_detected |-> last, context |-> ctx,
     facts |-> facts, calls |-> <<>>, pushes |-> <<>>]

OnlyForward(awaiting, last, ctx, facts, frame) ==
    [awaiting |-> awaiting, last_detected |-> last, context |-> ctx,
     facts |-> facts, calls |-> <<>>, pushes |-> <<frame>>]

\* self._add_system_message(content, tag=tag), then push_frame
InjectAndForward(awaiting, last, ctx, facts, frame, content, tag) ==
    [awaiting |-> awaiting, last_detected |-> last,
     context |-> AddSystemMessage(ctx, facts, content, tag).context,
     facts |-> AddSystemMessage(ctx, facts, content, tag).last,
     calls |-> <<[content |-> content, tag |-> tag]>>,
     pushes |-> <<frame>>]

\* lines 213-240: the order number differs from the last detected one
LookUpOrder(awaiting, ctx, facts, frame, order_number, order) ==
    IF order.found
    THEN InjectAndForward(AwaitingAfterLookup(awaiting, order), order_number,
             ctx, facts, frame,
             LookupContent(order_number.number, order.order), "order-lookup")
    ELSE InjectAndForward(AwaitingAfterLookup(awaiting, order), order_number,
             ctx, facts, frame,
             NotFoundContent(order_number.number), "order-not-found")

\* variant: every extracted number is looked up, repeated or not
HandleTextAlwaysLookUp(awaiting, last, ctx, facts, frame, txt, order_number) ==
    IF order_number.found THEN
        LookUpOrder(awaiting, ctx, facts, frame, order_number,
                    GetOrderById(ToInt(order_number.number)))
    ELSE IF ShouldAsk(DetectOrderIntent(txt), awaiting)
    THEN InjectAndForward(TRUE, last, ctx, facts, frame,
                          AskContent, "order-knowledge-base")
    ELSE OnlyForward(awaiting, last, ctx, facts, frame)

\* variant: no return after a repeated number, the intent check follows
HandleTextFallThrough(awaiting, last, ctx, facts, frame, txt, order_number) ==
    IF order_number.found /\ order_number # last
    THEN LookUpOrder(awaiting, ctx, facts, frame, order_number,
                     GetOrderById(ToInt(order_number.number)))
    ELSE IF ShouldAsk(DetectOrderIntent(txt), awaiting)
    THEN InjectAndForward(TRUE, last, ctx, facts, frame,
                          AskContent, "order-knowledge-base")
    ELSE OnlyForward(awaiting, last, ctx, facts, frame)

\* lines 211-252: the text is not empty and order_number was extracted from it
HandleText(awaiting, last, ctx, facts, frame, txt, order_number) ==
    IF order_number.found THEN
        IF order_number # last
        THEN LookUpOrder(awaiting, ctx, facts, frame, order_number,
                         GetOrderById(ToInt(order_number.number)))
        ELSE OnlyForward(awaiting, last, ctx, facts, frame)
    ELSE IF ShouldAsk(DetectOrderIntent(txt), awaiting)
    THEN InjectAndForward(TRUE, last, ctx, facts, frame,
                          AskContent, "order-knowledge-base")
    ELSE OnlyForward(awaiting, last, ctx, facts, frame)

\* lines 200-207: text is (frame.text or "").strip()
HandleFrame(awaiting, last, ctx, facts, frame, txt) ==
    IF ~(frame.kind = "TextFrame" /\ frame.direction = DOWNSTREAM)
    THEN OnlyForward(awaiting, last, ctx, facts, frame)
    ELSE IF txt = <<>> THEN OnlyForward(awaiting, last, ctx, facts, frame)
    ELSE HandleText(awaiting, last, ctx, facts, frame, txt,
                    ExtractOrderNumber(txt))

OrderKnowledge(awaiting, last, ctx, facts, frame) ==
    HandleFrame(awaiting, last, ctx, facts, frame, Strip(frame.text))

\* the texts of the frames given to the processor
Txt_ask ==
    <<"w", "h", "a", "t", "'", "s", " ", "m", "y", " ", "o", "r", "d", "e",
    "r", " ", "s", "t", "a", "t", "u", "s">>
Txt_1003 ==
    <<"o", "r", "d", "e", "r", " ", "n", "u", "m", "b", "e", "r", " ", "i",
    "s", " ", "1", "0", "0", "3">>
Txt_track1001 ==
    <<"t", "r", "a", "c", "k", " ", "m", "y", " ", "o", "r", "d", "e", "r",
    " ", "1", "0", "0", "1">>
Txt_9999 ==
    <<" ", "i", "t", " ", "i", "s", " ", "9", "9", "9", "9", " ">>
Txt_hello ==
    <<"h", "e", "l", "l", "o">>
Txt_blank ==
    <<" ", " ">>
InjectorTexts ==
    {Txt_ask, Txt_1003, Txt_track1001, Txt_9999, Txt_hello, Txt_blank,
     <<"1", "0", "0", "2">>, <<"1", "0", "0", "4">>, <<"1", "0", "0", "5">>}

TextFrame(txt, direction) ==
    [kind |-> "TextFrame", direction |-> direction, text |-> txt]
OtherFrame(kind, direction) ==
    [kind |-> kind, direction |-> direction, text |-> <<>>]

InjectorFrames ==
    {TextFrame(txt, DOWNSTREAM) : txt \in InjectorTexts}
    \cup {TextFrame(txt, UPSTREAM) : txt \in {Txt_ask, Txt_1003}}
    \cup {OtherFrame("BotStoppedSpeakingFrame", DOWNSTREAM)}

InjectorProcessFrame(frame) ==
    /\ Len(injector_seen) < MaxInjectorFrames
    /\ LET r == OrderKnowledge(awaiting_order_number, last_detected_order_number,
                               context, last_system_messages, frame)
       IN  /\ awaiting_order_number' = r.awaiting
           /\ last_detected_order_number' = r.last_detected
           /\ context' = r.context
           /\ last_system_messages' = r.facts
           /\ calls' = calls \o r.calls
           /\ injector_pushed' = injector_pushed \o r.pushes
    /\ injector_seen' = Append(injector_seen, frame)
    /\ UNCHANGED exceptInjectorVars

InjectorInit ==
    /\ awaiting_order_number = FALSE
    /\ last_detected_order_number = NoMatch
    /\ injector_seen = <<>>
    /\ injector_pushed = <<>>

InjectorNext == \E frame \in InjectorFrames : InjectorProcessFrame(frame)

\* ================================================== TranscriptionProcessor

Roles == {"user", "bot"}

\* OutputTransportMessageFrame(message=json.dumps(transcription)), which is
\* pushed Downstream
TranscriptMessage(payload) ==
    [kind |-> "OutputTransportMessageFrame", type |-> "transcription",
     message |-> payload, direction |-> DOWNSTREAM]

\* get_transcription(): cls.messages, the whole list
SnapshotLatestOnly(msgs) == <<msgs[Len(msgs)]>>

Snapshot(msgs) == msgs

\* lines 128-132: the flush of the bot buffer
FlushUntrimmed(buffer) ==
    [buffer |-> <<>>,
     adds |-> IF buffer # <<>> THEN <<[type |-> "bot", message |-> buffer]>>
              ELSE <<>>,
     snapshot |-> FALSE]

Flush(buffer) ==
    [buffer |-> <<>>,
     adds |-> IF Strip(buffer) # <<>>
              THEN <<[type |-> "bot", message |-> Strip(buffer)]>>
              ELSE <<>>,
     snapshot |-> FALSE]

\* process_frame (lines 111-132) of a processor with the given role and
\* self._bot_buffer: the new buffer, the add_message call made if any, and
\* whether a snapshot message is pushed
Transcribe(role, buffer, frame) ==
    IF frame.kind = "TextFrame"
    THEN IF role = "bot"
         THEN [buffer |-> buffer \o frame.text, adds |-> <<>>, snapshot |-> FALSE]
         ELSE [buffer |-> buffer,
               adds |-> <<[type |-> "user", message |-> frame.text]>>,
               snapshot |-> TRUE]
    ELSE IF frame.kind = "BotStoppedSpeakingFrame" /\ role = "bot"
    THEN Flush(buffer)
    ELSE [buffer |-> buffer, adds |-> <<>>, snapshot |-> FALSE]

Str_Hel == <<"H", "e", "l">>
Str_lo == <<"l", "o">>
RecorderFrames ==
    {TextFrame(txt, DOWNSTREAM) : txt \in {Str_Hel, Str_lo, <<" ">>}}
    \cup {TextFrame(Str_lo, UPSTREAM)}
    \cup {OtherFrame("BotStoppedSpeakingFrame", d) : d \in Directions}
    \cup {OtherFrame("UserStartedSpeakingFrame", DOWNSTREAM)}

\* process_frame(frame, direction) of the processor with the given role
RecorderProcessFrame(role, frame) ==
    /\ Len(recorder_seen["user"]) + Len(recorder_seen["bot"]) < MaxRecorderFrames
    /\ LET r == Transcribe(role, bot_buffer[role], frame)
       IN  /\ bot_buffer' = [bot_buffer EXCEPT ![role] = r.buffer]
           /\ IF r.adds = <<>>
              THEN UNCHANGED hubVars
              ELSE HubAppend(r.adds[1].type, r.adds[1].message)
           /\ recorder_pushed' =
                [recorder_pushed EXCEPT ![role] =
                    @ \o ThenForward(IF r.snapshot
                                     THEN <<TranscriptMessage(Snapshot(messages'))>>
                                     ELSE <<>>,
                                     frame)]
    /\ recorder_seen' = [recorder_seen EXCEPT ![role] = Append(@, frame)]
    /\ UNCHANGED exceptRecorderVars

RecorderInit ==
    /\ bot_buffer = [role \in Roles |-> <<>>]
    /\ recorder_seen = [role \in Roles |-> <<>>]
    /\ recorder_pushed = [role \in Roles |-> <<>>]

RecorderNext ==
    \E role \in Roles, frame \in RecorderFrames : RecorderProcessFrame(role, frame)

\* ==================================================== AudioLoggingProcessor

\* an InputAudioRawFrame with len(frame.audio) = size
AudioFrame(size, direction) ==
    [kind |-> "InputAudioRawFrame", direction |-> direction, text |-> <<>>,
     audio |-> size]

\* process_frame(frame, direction) (lines 45-64); the log line is not a state
AudioProcessFrame(frame) ==
    /\ IF frame.kind = "InputAudioRawFrame"
       THEN /\ audio_chunk_count' = audio_chunk_count + 1
            /\ total_audio_bytes' = total_audio_bytes + frame.audio
       ELSE UNCHANGED <<audio_chunk_count, total_audio_bytes>>
    /\ audio_seen' = Append(audio_seen, frame)
    /\ audio_pushed' = audio_pushed \o <<frame>>
    /\ UNCHANGED exceptAudioVars

AudioInit ==
    /\ audio_chunk_count = 0
    /\ total_audio_bytes = 0
    /\ audio_seen = <<>>
    /\ audio_pushed = <<>>

\* ============================= the custom stages of one session's pipeline

\* frames that reach the stages of a pipeline
StageFrames ==
    {TextFrame(Txt_ask, DOWNSTREAM), TextFrame(Txt_1003, DOWNSTREAM),
     TextFrame(Txt_blank, DOWNSTREAM),
     TextFrame(Str_lo, UPSTREAM),
     OtherFrame("BotStoppedSpeakingFrame", UPSTREAM),
     AudioFrame(2, DOWNSTREAM)}

\* frames given so far to the five processors the endpoint creates
StageFrameCount ==
    Len(audio_seen) + Len(seen) + Len(injector_seen)
    + Len(recorder_seen["user"]) + Len(recorder_seen["bot"])

\* audio_logger, state_processor, order_knowledge and the two
\* transcription processors (lines 284-285, 328-330), each given a frame
AudioLoggerGets(frame) ==
    StageFrameCount < MaxStageFrames /\ AudioProcessFrame(frame)
StateProcessorGets(frame) ==
    StageFrameCount < MaxStageFrames /\ TrackerProcessFrame(frame)
OrderKnowledgeGets(frame) ==
    StageFrameCount < MaxStageFrames /\ InjectorProcessFrame(frame)
TranscriptionProcessorGets(role, frame) ==
    StageFrameCount < MaxStageFrames /\ RecorderProcessFrame(role, frame)

StagesNext ==
    \E frame \in StageFrames :
        \/ AudioLoggerGets(frame)
        \/ StateProcessorGets(frame)
        \/ OrderKnowledgeGets(frame)
        \/ \E role \in Roles : TranscriptionProcessorGets(role, frame)

\* ========================================= VoiceService.websocket_endpoint

\* the websockets that connect to the voice endpoint
VoiceSockets == {"V1", "V2", "V3"}
\* os.getenv("GROQ_API_KEY"): unset, set to the empty string, or set
Keys == {None, "", "gsk_key"}
\* before the class body has run
NotRead == "not read"
\* how `await runner.run(task)` can end: it returns, it raises an Exception,
\* or the handler's task is cancelled (CancelledError is not an Exception)
RunOutcomes == {"returned", "Exception", "CancelledError"}
\* how an awaited call of the websocket (accept, close) can end otherwise than
\* by returning: it raises (RuntimeError), or the handler's task is cancelled
\* while it waits
Raises == RunOutcomes \ {"returned"}
\* the close code of line 267
InternalErrorCode == 1011

\* `if not cls._groq_api_key`
MissingKeyNever(key) == FALSE

MissingKey(key) == key = None \/ key = ""

NewSession ==
    [pc |-> "idle", accepted |-> FALSE, stream |-> "connecting",
     closes |-> <<>>, built |-> FALSE, raised |-> None]

\* line 258: the class attribute is read from the environment once
ReadEnvironment(key) ==
    /\ groq_api_key = NotRead
    /\ groq_api_key' = key
    /\ UNCHANGED session
    /\ UNCHANGED exceptEndpointVars

\* lines 266-267: the key is missing and close(code=1011) is called, before
\* accept(); the handler waits in the call
Refuse(s) ==
    /\ groq_api_key # NotRead
    /\ session[s].pc = "idle"
    /\ MissingKey(groq_api_key)
    /\ session' = [session EXCEPT ![s].pc = "refusing",
                                  ![s].stream = "closed",
                                  ![s].closes = <<InternalErrorCode>>]
    /\ UNCHANGED groq_api_key
    /\ UNCHANGED exceptEndpointVars

\* lines 267-269: the close returns, the error is logged and the handler
\* returns; or the close raises, or the handler is cancelled in it, and the
\* handler is left by that exception without the log
RefuseEnds(s, outcome) ==
    /\ session[s].pc = "refusing"
    /\ session' = [session EXCEPT
                     ![s].pc = "finished",
                     ![s].raised = IF outcome = "returned" THEN None ELSE outcome]
    /\ UNCHANGED groq_api_key
    /\ UNCHANGED exceptEndpointVars

\* line 271: accept() raises, or the handler is cancelled while it waits in
\* accept(); the call is outside the try, the handler is left by the exception
AcceptRaises(s, outcome) ==
    /\ groq_api_key # NotRead
    /\ session[s].pc = "idle"
    /\ ~MissingKey(groq_api_key)
    /\ session' = [session EXCEPT ![s].pc = "finished",
                                  ![s].raised = outcome]
    /\ UNCHANGED groq_api_key
    /\ UNCHANGED exceptEndpointVars

\* lines 271-322: accept() returns and a constructor of lines 274-359 raises:
\* OrderKnowledgeProcessor(context) creates an OrderService, which opens and
\* parses data/store.json (order_service.py 49-55) and raises when the file is
\* missing or malformed; the call is outside the try and nothing closes the
\* websocket
BuildRaises(s) ==
    /\ groq_api_key # NotRead
    /\ session[s].pc = "idle"
    /\ ~MissingKey(groq_api_key)
    /\ session' = [session EXCEPT ![s].pc = "finished",
                                  ![s].accepted = TRUE,
                                  ![s].stream = "open",
                                  ![s].raised = "Exception"]
    /\ UNCHANGED groq_api_key
    /\ UNCHANGED exceptEndpointVars

\* lines 271-363: accept() returns, transport, stages, context, pipeline, task
\* and runner are created, then the handler awaits runner.run(task)
AcceptAndRun(s) ==
    /\ groq_api_key # NotRead
    /\ session[s].pc = "idle"
    /\ ~MissingKey(groq_api_key)
    /\ session' = [session EXCEPT ![s].pc = "running",
                                  ![s].accepted = TRUE,
                                  ![s].stream = "open",
                                  ![s].built = TRUE]
    /\ UNCHANGED groq_api_key
    /\ UNCHANGED exceptEndpointVars

\* while the pipeline runs, the stream may get closed by the client or by
\* the transport of the pipeline; the handler's own code does not do it
StreamClosedDuringRun(s) ==
    /\ session[s].pc = "running"
    /\ session[s].stream = "open"
    /\ session' = [session EXCEPT ![s].stream = "closed"]
    /\ UNCHANGED groq_api_key
    /\ UNCHANGED exceptEndpointVars

\* lines 361-368: runner.run(task) ends; except Exception logs and re-raises,
\* finally logs; the handler is left by return or by the exception
RunEnds(s, outcome) ==
    /\ session[s].pc = "running"
    /\ session' = [session EXCEPT
                     ![s].pc = "finished",
                     ![s].raised = IF outcome = "returned" THEN None ELSE outcome]
    /\ UNCHANGED groq_api_key
    /\ UNCHANGED exceptEndpointVars

EndpointInit ==
    /\ groq_api_key = NotRead
    /\ session = [s \in VoiceSockets |-> NewSession]

EndpointNext ==
    \/ \E key \in Keys : ReadEnvironment(key)
    \/ \E s \in VoiceSockets : Refuse(s)
    \/ \E s \in VoiceSockets, outcome \in RunOutcomes : RefuseEnds(s, outcome)
    \/ \E s \in VoiceSockets, outcome \in Raises : AcceptRaises(s, outcome)
    \/ \E s \in VoiceSockets : BuildRaises(s)
    \/ \E s \in VoiceSockets : AcceptAndRun(s)
    \/ \E s \in VoiceSockets : StreamClosedDuringRun(s)
    \/ \E s \in VoiceSockets, outcome \in RunOutcomes : RunEnds(s, outcome)

\* ============================ the pipelines of concurrent voice sessions

\* Every connection to the voice endpoint builds its own processors and its
\* own context (lines 284-330) and runs them in one Pipeline (332-347); the
\* TranscriptionService the recorders call is the class shared by all.
VoiceSessions == {"V1", "V2"}

\* the stages of Pipeline([...]) that are modelled, in pipeline order; "llm"
\* stands for context_aggregator.user() and llm, "output" for what follows
\* variant: the order knowledge processor placed after the llm
PipelineStagesInjectorLast ==
    <<"state_processor", "transcription_processor_user", "llm",
      "order_knowledge", "transcription_processor_bot", "output">>

PipelineStages ==
    <<"state_processor", "order_knowledge", "transcription_processor_user",
      "llm", "transcription_processor_bot", "output">>

StageNames == {PipelineStages[i] : i \in 1..Len(PipelineStages)}
Position(stage) == CHOOSE i \in 1..Len(PipelineStages) : PipelineStages[i] = stage
\* where a frame pushed Downstream by a stage goes
NextStage(stage) == PipelineStages[Position(stage) + 1]

\* the objects websocket_endpoint creates for one connection
NewPipeline ==
    [state |-> None,
     context |-> <<KnowledgeBase>>,
     facts |-> [t \in Tags |-> None],
     awaiting |-> FALSE,
     last_detected |-> NoMatch,
     bot_buffer |-> [role \in Roles |-> <<>>],
     \* the frames waiting in front of each stage; those of "output" are the
     \* frames the session has emitted toward its transport
     inbox |-> [stage \in StageNames |-> <<>>],
     \* the frames received, and the text frames each of three stages has
     \* handled together with the context as it was then
     inbound |-> <<>>,
     injected |-> <<>>,
     recorded |-> <<>>,
     llm_seen |-> <<>>]

\* the frames a session gets from its transport and its STT service
SessionFrames ==
    {TextFrame(Txt_ask, DOWNSTREAM), TextFrame(Txt_1003, DOWNSTREAM),
     OtherFrame("UserStoppedSpeakingFrame", DOWNSTREAM),
     OtherFrame("BotStoppedSpeakingFrame", DOWNSTREAM)}
\* what the llm may answer a text with: nothing yet, or a chunk of text
Replies == {<<>>, <<TextFrame(Str_lo, DOWNSTREAM)>>}

\* the objects of session s after one of its stages has run
\* variant: the stage's objects are shared by all sessions
UpdatedShared(all, s, p) == [t \in DOMAIN all |-> p]

Updated(all, s, p) == [all EXCEPT ![s] = p]

\* the stage has taken the first frame of its queue and pushed frames
Passed(p, stage, frames) ==
    [p EXCEPT !.inbox[stage] = Tail(@),
              !.inbox[NextStage(stage)] = @ \o frames]

Ready(s, stage) == pipes[s].inbox[stage] # <<>>
InboundCount(all, S) ==
    LET RECURSIVE Count(_)
        Count(T) == IF T = {} THEN 0
                    ELSE LET t == CHOOSE x \in T : TRUE
                         IN  Len(all[t].inbound) + Count(T \ {t})
    IN  Count(S)

\* a frame enters the pipeline of session s
SessionReceives(s, frame) ==
    /\ InboundCount(pipes, VoiceSessions) < MaxSessionFrames
    /\ pipes' = Updated(pipes, s,
                    [pipes[s] EXCEPT !.inbound = Append(@, frame),
                                     !.inbox[PipelineStages[1]] = Append(@, frame)])
    /\ UNCHANGED hubVars
    /\ UNCHANGED exceptSessionVars

\* ConversationStateProcessor.process_frame on the session's processor
StateProcessorRuns(s) ==
    /\ Ready(s, "state_processor")
    /\ LET p == pipes[s]
           frame == Head(p.inbox["state_processor"])
           target == StateOf(frame)
           n == IF target = None
                THEN [state |-> p.state, pushes |-> <<>>]
                ELSE Notify(p.state, target)
       IN  pipes' = Updated(pipes, s,
                       Passed([p EXCEPT !.state = n.state], "state_processor",
                              n.pushes \o <<frame>>))
    /\ UNCHANGED hubVars
    /\ UNCHANGED exceptSessionVars

\* OrderKnowledgeProcessor.process_frame on the session's processor
OrderKnowledgeRuns(s) ==
    /\ Ready(s, "order_knowledge")
    /\ LET p == pipes[s]
           frame == Head(p.inbox["order_knowledge"])
           r == IF frame.kind = "TextFrame"
                THEN OrderKnowledge(p.awaiting, p.last_detected, p.context,
                                    p.facts, frame)
                ELSE OnlyForward(p.awaiting, p.last_detected, p.context,
                                 p.facts, frame)
       IN  pipes' = Updated(pipes, s,
                       Passed([p EXCEPT !.awaiting = r.awaiting,
                                        !.last_detected = r.last_detected,
                                        !.context = r.context,
                                        !.facts = r.facts,
                                        !.injected =
                                            IF frame.kind = "TextFrame"
                                            THEN Append(@, [frame |-> frame,
                                                            context |-> r.context])
                                            ELSE @],
                              "order_knowledge", r.pushes))
    /\ UNCHANGED hubVars
    /\ UNCHANGED exceptSessionVars

\* TranscriptionProcessor.process_frame on the session's processor of a role
TranscriptionProcessorRuns(s, role) ==
    LET stage == "transcription_processor_" \o role
    IN  /\ Ready(s, stage)
        /\ LET p == pipes[s]
               frame == Head(p.inbox[stage])
               r == Transcribe(role, p.bot_buffer[role], frame)
           IN  /\ IF r.adds = <<>>
                  THEN UNCHANGED hubVars
                  ELSE HubAppend(r.adds[1].type, r.adds[1].message)
               /\ pipes' = Updated(pipes, s,
                     Passed([p EXCEPT !.bot_buffer[role] = r.buffer,
                                      !.recorded =
                                          IF frame.kind = "TextFrame" /\ role = "user"
                                          THEN Append(@, [frame |-> frame,
                                                          context |-> p.context])
                                          ELSE @], stage,
                            (IF r.snapshot
                             THEN <<TranscriptMessage(Snapshot(messages'))>>
                             ELSE <<>>) \o <<frame>>))
        /\ UNCHANGED exceptSessionVars

\* the context aggregator and the llm: a text is consumed together with the
\* context as it is then and may be answered with text; other frames pass
LlmRuns(s, reply) ==
    /\ Ready(s, "llm")
    /\ LET p == pipes[s]
           frame == Head(p.inbox["llm"])
       IN  IF frame.kind = "TextFrame"
           THEN pipes' = Updated(pipes, s,
                    Passed([p EXCEPT !.llm_seen =
                                Append(@, [frame |-> frame, context |-> p.context,
                                           reply |-> reply])],
                           "llm", reply))
           ELSE /\ reply = <<>>
                /\ pipes' = Updated(pipes, s, Passed(p, "llm", <<frame>>))
    /\ UNCHANGED hubVars
    /\ UNCHANGED exceptSessionVars

SessionInit == pipes = [s \in VoiceSessions |-> NewPipeline]

SessionNext ==
    \/ \E s \in VoiceSessions, frame \in SessionFrames : SessionReceives(s, frame)
    \/ \E s \in VoiceSessions : StateProcessorRuns(s)
    \/ \E s \in VoiceSessions : OrderKnowledgeRuns(s)
    \/ \E s \in VoiceSessions, role \in Roles : TranscriptionProcessorRuns(s, role)
    \/ \E s \in VoiceSessions, reply \in Replies : LlmRuns(s, reply)

\* ================================= HealthService (Service/__init__.py)

\* what cls._data_path.open("r", encoding="utf-8") and json.load meet: a file
\* holding JSON, no file, a file that is not JSON, a file that is not UTF-8
\* text, a path that cannot be opened for another reason
Datasets == {"json", "absent", "not json", "not utf-8", "not readable"}

\* the exceptions of open() and json.load(); None when there is none
LoadError(file) ==
    CASE file = "json" -> None
      [] file = "absent" -> "FileNotFoundError"
      [] file = "not json" -> "JSONDecodeError"
      [] file = "not utf-8" -> "UnicodeDecodeError"
      [] OTHER -> "PermissionError"

\* _verify_static_dataset: the pair returned, or the exception it lets through
VerifyStaticDataset(file) ==
    LET e == LoadError(file)
    IN  IF e = None
        THEN [raised |-> None, status |-> "static-json",
              message |-> "Static dataset loaded successfully"]
        ELSE IF e = "FileNotFoundError"
        THEN [raised |-> None, status |-> "missing",
              message |-> "Static dataset not found"]
        ELSE IF e = "JSONDecodeError"
        THEN [raised |-> None, status |-> "invalid",
              message |-> "Static dataset is malformed"]
        ELSE [raised |-> e, status |-> None, message |-> None]

\* "healthy" if status == "static-json" else "unhealthy"
\* variant: always healthy
OverallHealthy(status) == "healthy"

Overall(status) == IF status = "static-json" THEN "healthy" ELSE "unhealthy"

\* check_health: the HealthResponse, or the exception
HealthResponse(file) ==
    LET v == VerifyStaticDataset(file)
    IN  IF v.raised # None
        THEN [raised |-> v.raised, status |-> None, database |-> None,
              message |-> None]
        ELSE [raised |-> None, status |-> Overall(v.status),
              database |-> v.status, message |-> v.message]

CheckHealth ==
    /\ Len(health_checks) < MaxHealthChecks
    /\ health_checks' = Append(health_checks,
                               [file |-> dataset, got |-> HealthResponse(dataset)])
    /\ UNCHANGED dataset
    /\ UNCHANGED exceptHealthVars

\* the file is written, replaced or removed by whoever maintains it
DatasetChanges(file) ==
    /\ file # dataset
    /\ dataset' = file
    /\ UNCHANGED health_checks
    /\ UNCHANGED exceptHealthVars

HealthInit ==
    /\ dataset = "json"
    /\ health_checks = <<>>

HealthNext ==
    \/ CheckHealth
    \/ \E file \in Datasets : DatasetChanges(file)

\* ============================================================ specifications

Init == TrackerInit /\ FactInit /\ HubInit /\ ExtractInit /\ InjectorInit
        /\ RecorderInit /\ AudioInit /\ EndpointInit /\ OrderInit
        /\ SessionInit /\ HealthInit

TrackerSpec == Init /\ [][TrackerNext]_vars
FactSpec == Init /\ [][FactNext]_vars
ExtractSpec == Init /\ [][ExtractNext]_vars
InjectorSpec == Init /\ [][InjectorNext]_vars
RecorderSpec == Init /\ [][RecorderNext]_vars
StagesSpec == Init /\ [][StagesNext]_vars
EndpointSpec == Init /\ [][EndpointNext]_vars
OrderSpec == Init /\ [][OrderNext]_vars
SessionSpec == Init /\ [][SessionNext]_vars
HealthSpec == Init /\ [][HealthNext]_vars
HubSpec == Init /\ [][HubNext]_vars

\* the event loop runs every task it was given
HubFairSpec == HubSpec /\ WF_vars(TaskStarts \/ SendUpdate \/ SendUpdateFails)

\* ==================================================================== claims

\* ---- ConversationStateProcessor

\* the values of the state notifications among the pushed frames, in order
Emitted ==
    LET msgs == SelectSeq(pushed, LAMBDA f : f.kind = "OutputTransportMessageFrame")
    IN [i \in 1..Len(msgs) |-> msgs[i].value]

\* C2: no two consecutively emitted state notifications of a session carry the
\* same value: a notification is emitted only when the state changes.
C2_NoRedundantNotification ==
    \A i \in 1..(Len(Emitted) - 1) : Emitted[i] # Emitted[i + 1]

\* a repeated state was observed and the tracker has emitted two notifications
C2_Witness ==
    /\ Len(seen) = 4
    /\ seen[1].kind = "StartFrame" /\ seen[1].direction = DOWNSTREAM
    /\ seen[2].kind = "UserStartedSpeakingFrame" /\ seen[2].direction = DOWNSTREAM
    /\ seen[3].kind = "BotStartedSpeakingFrame"
    /\ seen[4].kind = "BotStartedSpeakingFrame"
    /\ Emitted = <<"listening", "responding">>

\* the mapping as the claim states it: lifecycle kind -> state
LifecycleState(kind) ==
    CASE kind = "StartFrame" -> "listening"
      [] kind = "UserStartedSpeakingFrame" -> "listening"
      [] kind = "UserStoppedSpeakingFrame" -> "processing"
      [] kind = "BotStartedSpeakingFrame" -> "responding"
      [] kind = "BotStoppedSpeakingFrame" -> "listening"

\* the lifecycle frames of the session: the session-start and user frames of
\* the downstream flow, and the bot frames
IsLifecycle(frame) ==
    \/ frame.kind \in {"BotStartedSpeakingFrame", "BotStoppedSpeakingFrame"}
    \/ /\ frame.kind \in {"StartFrame", "UserStartedSpeakingFrame",
                          "UserStoppedSpeakingFrame"}
       /\ frame.direction = DOWNSTREAM

RECURSIVE Collapse(_)
\* s with every run of equal consecutive elements reduced to one element
Collapse(s) ==
    IF Len(s) <= 1 THEN s
    ELSE LET rest == Collapse(Tail(s))
         IN IF Head(s) = Head(rest) THEN rest ELSE <<Head(s)>> \o rest

MappedStates ==
    LET life == SelectSeq(seen, IsLifecycle)
    IN [i \in 1..Len(life) |-> LifecycleState(life[i].kind)]

\* C3: the emitted state notifications are the lifecycle frames mapped to
\* their states with consecutive duplicates collapsed, the first mapped state
\* always being emitted.
C3_EmittedIsCollapsedMapping == Emitted = Collapse(MappedStates)

\* the scenario of the claim: SessionStart, UserStarted, UserStopped,
\* UserStarted has emitted listening, processing, listening
C3_Witness ==
    /\ Len(seen) = 4
    /\ \A i \in 1..4 : seen[i].direction = DOWNSTREAM
    /\ seen[1].kind = "StartFrame"
    /\ seen[2].kind = "UserStartedSpeakingFrame"
    /\ seen[3].kind = "UserStoppedSpeakingFrame"
    /\ seen[4].kind = "UserStartedSpeakingFrame"
    /\ Emitted = <<"listening", "processing", "listening">>

\* ---- OrderKnowledgeProcessor._add_system_message

\* the content stored for the tag of call i when call i is made: the content of
\* the latest earlier call with that tag, None when there is none
StoredBefore(i) ==
    LET earlier == {j \in 1..(i - 1) : calls[j].tag = calls[i].tag}
    IN IF earlier = {} THEN None
       ELSE calls[CHOOSE j \in earlier : \A k \in earlier : k <= j].content

\* call i appends: it is untagged, or its content differs from the stored one
Appends(i) == calls[i].tag = NoTag \/ StoredBefore(i) # calls[i].content

RECURSIVE AppendedContents(_)
\* the contents of the appending calls among the first n calls, in order
AppendedContents(n) ==
    IF n = 0 THEN <<>>
    ELSE AppendedContents(n - 1) \o (IF Appends(n) THEN <<calls[n].content>> ELSE <<>>)

\* C1: a tagged injection appends one system message to the context if and
\* only if its content differs from the content last stored for its tag: the
\* same (tag, content) twice in a row appends once, (tag, c1) then (tag, c2)
\* appends twice.
C1_TaggedInjectionDedup ==
    /\ Len(context) = 1 + Len(AppendedContents(Len(calls)))
    /\ \A i \in 1..Len(AppendedContents(Len(calls))) :
          context[i + 1] = [role |-> "system", content |-> AppendedContents(Len(calls))[i]]

\* (tag, c1), (tag, c1), (tag, c2) has appended exactly two messages
C1_Witness ==
    /\ Len(calls) = 3
    /\ calls[1] = [content |-> "c1", tag |-> "order-lookup"]
    /\ calls[2] = calls[1]
    /\ calls[3] = [content |-> "c2", tag |-> "order-lookup"]
    /\ Len(context) = 3

\* ---- TranscriptionService

\* the entries of every payload written to w
ReceivedEntries(w) ==
    UNION {{received[w][i][k] : k \in 1..Len(received[w][i])} : i \in 1..Len(received[w])}

\* the time of the last entry of a payload, 0 for an empty payload
LastTime(payload) == IF payload = <<>> THEN 0 ELSE payload[Len(payload)].time

\* p is a prefix of q
IsPrefix(p, q) == Len(p) <= Len(q) /\ SubSeq(q, 1, Len(p)) = p

\* C4: when an unsubscribe leaves the subscriber set empty the entry sequence
\* is cleared: the sequence holds no entry appended before the set last became
\* empty, and a websocket subscribed after that is never sent such an entry.
C4_ResetOnIdle ==
    /\ \A i \in 1..Len(messages) : messages[i].time > resetAt
    /\ \A w \in WebSockets :
          join[w].joined =>
              \A e \in ReceivedEntries(w) : e.time > join[w].resetAt

\* subscribe(A), add_message, unsubscribe(A), subscribe(B), add_message: B
\* has been sent the second entry alone
C4_Witness ==
    /\ handler["A"] = "closed" /\ join["A"].joined /\ Len(received["A"]) = 1
    /\ handler["B"] = "receiving" /\ join["B"].joined
    /\ join["B"].time = 1 /\ join["B"].resetAt = 1
    /\ clock = 2
    /\ Len(received["B"]) = 1
    /\ Len(received["B"][1]) = 1 /\ received["B"][1][1].time = 2

\* a step in which the send of task i of the queue returned
TaskSent(i) ==
    /\ tasks' = Without(tasks, i)
    /\ received' = [received EXCEPT ![tasks[i].ws] = Append(@, tasks[i].payload)]

\* a step of a _send_update task whose send returned
IsSendUpdate == \E i \in 1..Len(tasks) : TaskSent(i)

\* C5: no send is started on a websocket that is no longer in the subscriber
\* set.
C5_NoSendAfterRemoval ==
    [][unstarted' < unstarted =>
          tasks[NextToStart(tasks, unstarted)].ws \in connections]_vars

\* the payloads written to w that end with the entry of add_message call n
Deliveries(w, n) ==
    {i \in 1..Len(received[w]) : LastTime(received[w][i]) = n /\ n > join[w].time}

\* a step of add_message
IsAddMessage == clock' = clock + 1

\* C6: every add_message appends exactly one entry and creates one delivery of
\* the full entry sequence for every connection subscribed at that moment, none
\* when there is no subscriber; every such delivery is eventually made, it
\* writes the snapshot to its connection unless the send fails (which removes
\* the connection), and a connection is sent the snapshot of one add_message
\* at most once.
C6_FanOut ==
    /\ [][IsAddMessage =>
            /\ Len(messages') = Len(messages) + 1
            /\ SubSeq(messages', 1, Len(messages)) = messages
            /\ Len(tasks') = Len(tasks) + Cardinality(connections)
            /\ \A w \in connections :
                 \E i \in (Len(tasks) + 1)..Len(tasks') :
                     tasks'[i] = [ws |-> w, payload |-> messages']
            /\ received' = received]_vars
    /\ [](\A w \in WebSockets :
            /\ \A n \in 1..MaxAppends : Cardinality(Deliveries(w, n)) <= 1
            /\ w \in connections =>
                  \A i \in 1..Len(received[w]) : IsPrefix(received[w][i], messages))
    /\ [][Len(tasks') < Len(tasks) =>
            \E i \in 1..Len(tasks) :
                /\ tasks' = Without(tasks, i)
                /\ TaskSent(i) \/ tasks[i].ws \notin connections']_vars
    /\ []<>(tasks = <<>>)

\* both websockets subscribed to an empty hub, two add_message, and each has
\* been sent the two snapshots
C6_Witness ==
    /\ connections = {"A", "B"}
    /\ join["A"].time = 0 /\ join["B"].time = 0
    /\ clock = 2 /\ tasks = <<>>
    /\ \A w \in WebSockets :
          received[w] = <<SubSeq(messages, 1, 1), messages>>

\* C7: a websocket that subscribes while there are entries is sent the full
\* sequence, before any snapshot of a later add_message; one that subscribes
\* while there are none is sent nothing but the snapshots of later add_message
\* calls.
C7_InitialSnapshotFirst ==
    \A w \in WebSockets :
        (join[w].joined /\ ~join[w].failed) =>
            LET r == received[w]
                first == IF join[w].messages # <<>> THEN 2 ELSE 1
            IN /\ (join[w].messages # <<>> /\ handler[w] = "receiving") => r # <<>>
               /\ (join[w].messages # <<>> /\ r # <<>>) => r[1] = join[w].messages
               /\ \A i \in first..Len(r) : LastTime(r[i]) > join[w].time

\* a step of a _send_update task whose send_text raised: a task has gone and
\* nothing was written
IsFailedSend == Len(tasks') < Len(tasks) /\ received' = received

\* C8: a send that fails during fan-out removes exactly the failing subscriber,
\* leaves the deliveries of the other subscribers in place, and leaves the
\* appended entries as they are.
C8_SendFailureIsLocal ==
    [][IsFailedSend =>
          \E i \in 1..Len(tasks) :
              /\ connections' = connections \ {tasks[i].ws}
              /\ messages' = messages
              /\ clock' = clock
              /\ tasks' = Without(tasks, i)]_vars

\* one add_message with A and B subscribed: the send to A failed and removed A,
\* and B was sent the snapshot
C8_Witness ==
    /\ clock = 1 /\ Len(messages) = 1
    /\ join["A"].joined /\ join["B"].joined
    /\ join["A"].time = 0 /\ join["B"].time = 0
    /\ handler["A"] = "receiving" /\ received["A"] = <<>>
    /\ connections = {"B"} /\ tasks = <<>>
    /\ received["B"] = <<messages>>

\* the payloads written to w by the tasks of the add_message calls made since
\* it was added, in the order they were written
Updates(w) == SelectSeq(received[w], LAMBDA p : LastTime(p) > join[w].time)

\* C9: the snapshots of the add_message calls that one subscriber receives
\* arrive in append order: each is a prefix of the next.
C9_SnapshotsInAppendOrder ==
    \A w \in WebSockets :
        \A i \in 1..(Len(Updates(w)) - 1) :
            IsPrefix(Updates(w)[i], Updates(w)[i + 1])

\* C10: whatever ends the handler of a websocket that was added to the
\* subscriber set, the websocket is removed and the messages are cleared when
\* no subscriber is left, before the handler returns; no websocket whose
\* handler has returned is in the set.
C10_TeardownOnEveryExit ==
    /\ [](\A w \in WebSockets : handler[w] = "closed" => w \notin connections)
    /\ [][\A w \in WebSockets :
            (handler[w] # "closed" /\ handler'[w] = "closed" /\ join'[w].joined) =>
                /\ w \notin connections'
                /\ connections' = {} => messages' = <<>>]_vars

\* A's handler has returned while B is subscribed and entries are kept, and
\* B's handler has returned after it, leaving no subscriber and no entry
C10_Witness ==
    /\ handler["A"] = "closed" /\ handler["B"] = "closed"
    /\ join["A"].joined /\ join["B"].joined
    /\ received["A"] # <<>> /\ Len(received["B"]) > Len(received["A"])
    /\ connections = {} /\ messages = <<>> /\ clock = 2

\* ---- OrderKnowledgeProcessor._extract_order_number

\* the words that may stand between "order" and the digits
PrefixWords == {<<>>, Str_number, Str_no, Str_no \o <<".">>, <<"#">>}
LinkWords == {<<>>, Str_is, <<":">>}

OnlySpaces(txt, a, b) == \A k \in a..(b - 1) : txt[k] = " "
WordAt(txt, a, w) ==
    /\ a + Len(w) - 1 <= Len(txt)
    /\ [k \in 1..Len(w) |-> Lower(txt[a + k - 1])] = w

\* where the run of digits that begins at p ends (one past its last digit)
RunEnd(txt, p) ==
    Min({e \in p..(Len(txt) + 1) : e = Len(txt) + 1 \/ ~IsDigit(txt[e])})
Run(txt, p) == SubSeq(txt, p, RunEnd(txt, p) - 1)

\* "order" at i, then optionally number / no / no. / #, then optionally
\* is / :, with any spaces around them, then a run of 3 or more digits at p
OrderPrefixed(txt, i, p) ==
    /\ WordAt(txt, i, Str_order)
    /\ p \in (i + 5)..Len(txt)
    /\ IsDigit(txt[p])
    /\ RunEnd(txt, p) - p >= 3
    /\ \E w \in PrefixWords, l \in LinkWords :
         \E a \in (i + 5)..p :
           \E c \in (a + Len(w))..p :
             /\ OnlySpaces(txt, i + 5, a)
             /\ WordAt(txt, a, w)
             /\ OnlySpaces(txt, a + Len(w), c)
             /\ WordAt(txt, c, l)
             /\ c + Len(l) <= p
             /\ OnlySpaces(txt, c + Len(l), p)

PrefixedStarts(txt) ==
    {i \in {j \in 1..Len(txt) : WordAt(txt, j, Str_order)} :
        \E p \in 1..Len(txt) : OrderPrefixed(txt, i, p)}
PrefixedRun(txt, i) ==
    Run(txt, CHOOSE p \in 1..Len(txt) : OrderPrefixed(txt, i, p))

\* a run of 3 or more digits with no letter, digit or underscore next to it
StandaloneRuns(txt) ==
    {p \in 1..Len(txt) :
        /\ IsDigit(txt[p])
        /\ p = 1 \/ ~IsWord(txt[p - 1])
        /\ RunEnd(txt, p) - p >= 3
        /\ RunEnd(txt, p) = Len(txt) + 1 \/ ~IsWord(txt[RunEnd(txt, p)])}

\* C15: for a text in which "order" (optionally followed by number, no., #
\* and by is or :) is followed by a run of 3 or more digits, the function
\* returns that run (of the first such place), whatever standalone runs of
\* digits stand elsewhere in the text, earlier ones included.
C15_OrderPrefixedNumberWins ==
    (extracted.done /\ PrefixedStarts(text) # {}) =>
        extracted.result = Found(PrefixedRun(text, Min(PrefixedStarts(text))))

\* a standalone run stands before the "order"-prefixed one, which is returned
C15_Witness ==
    /\ extracted.done
    /\ PrefixedStarts(text) # {}
    /\ \E p \in StandaloneRuns(text) :
         /\ p < Min(PrefixedStarts(text))
         /\ Run(text, p) # extracted.result.number
    /\ extracted.result = Found(PrefixedRun(text, Min(PrefixedStarts(text))))

\* C16: for a text with no "order"-prefixed number the function returns the
\* first standalone run of 3 or more digits when there is one, and nothing
\* otherwise; in particular nothing when every run of digits is 1 or 2 long.
C16_FallbackFirstStandaloneRun ==
    (extracted.done /\ PrefixedStarts(text) = {}) =>
        /\ LET runs == StandaloneRuns(text)
           IN  extracted.result =
                   IF runs # {} THEN Found(Run(text, Min(runs))) ELSE NoMatch
        /\ (\A p \in 1..Len(text) : IsDigit(text[p]) => RunEnd(text, p) - p <= 2)
             => extracted.result = NoMatch

\* a run of 1 or 2 digits stands before the standalone run that is returned
C16_Witness ==
    /\ extracted.done
    /\ PrefixedStarts(text) = {}
    /\ StandaloneRuns(text) # {}
    /\ \E p \in 1..Len(text) :
         /\ p < Min(StandaloneRuns(text))
         /\ IsDigit(text[p])
    /\ extracted.result = Found(Run(text, Min(StandaloneRuns(text))))

\* ---- OrderKnowledgeProcessor.process_frame

\* a step in which process_frame handled the frame
Handles(frame) == injector_seen' = Append(injector_seen, frame)
\* the non-empty text a frame carries Downstream, and its order number
TextOf(frame) == Strip(frame.text)
CarriesText(frame) ==
    /\ frame.kind = "TextFrame"
    /\ frame.direction = DOWNSTREAM
    /\ TextOf(frame) # <<>>
\* (the numbers of all the frames, worked out once)
ExtractedFrom ==
    [frame \in InjectorFrames |-> ExtractOrderNumber(Strip(frame.text))]
NumberOf(frame) == ExtractedFrom[frame]
CarriesNewNumber(frame) ==
    /\ CarriesText(frame)
    /\ NumberOf(frame).found
    /\ NumberOf(frame) # last_detected_order_number
OrderOf(frame) == GetOrderById(ToInt(NumberOf(frame).number))

SystemMessage(content) == [role |-> "system", content |-> content]
InContext(ctx, content) == \E i \in 1..Len(ctx) : ctx[i] = SystemMessage(content)
\* the fact is in the context under the tag, the context having gained at
\* most this one message (none when the tag already held the same content)
InjectedUnder(content, tag) ==
    /\ last_system_messages'[tag] = content
    /\ InContext(context', content)
    /\ context' \in {context, Append(context, SystemMessage(content))}
    /\ calls' = Append(calls, [content |-> content, tag |-> tag])

Order1003Fact ==
    "Order lookup result for order number 1003:\nOrder #1003 Details:\n- Order Date: 2024-03-03 10:30\n- Status: shipped\n- Total Amount: $110.03\n\nItems:\n  - Keyboard\n    Quantity: 2\n    Price: $49.99 each\n    Subtotal: $99.98\n  - Mouse\n    Quantity: 1\n    Price: $15.00 each\n    Subtotal: $15.00\nUse ONLY this data when responding. State the order status and delivery expectation exactly as shown, and mention key items only if needed. Never invent additional products, dates, or amounts. Hint for tone: Order 1003 has shipped. Review the provided delivery estimate and repeat it back accurately."

AskThen1003 == <<TextFrame(Txt_ask, DOWNSTREAM), TextFrame(Txt_1003, DOWNSTREAM)>>

\* C11: when a Downstream text frame yields an order number that differs
\* from the previous one and the order exists, the order summary with the
\* tone hint of its status is injected as a system fact under the tag
\* "order-lookup" and the awaiting flag is false afterwards; after "what's my
\* order status" and "order number is 1003" the context ends with the fact
\* that holds "Status: shipped" and the hint for a shipped order.
C11_FoundOrderInjected ==
    /\ [][\A frame \in InjectorFrames :
          (Handles(frame) /\ CarriesNewNumber(frame) /\ OrderOf(frame).found) =>
            LET order == OrderOf(frame).order
            IN  /\ InjectedUnder(
                     "Order lookup result for order number "
                         \o Join(NumberOf(frame).number) \o ":\n"
                         \o FormatOrderDetails(order) \o "\n"
                         \o "Use ONLY this data when responding. State the order status and delivery expectation exactly as shown, and mention key items only if needed. Never invent additional products, dates, or amounts."
                         \o " Hint for tone: Order " \o ToString(order.id) \o " "
                         \o StatusSummary(order.status),
                     "order-lookup")
                /\ awaiting_order_number' = FALSE]_vars
    /\ [](injector_seen = AskThen1003 =>
            /\ context = <<KnowledgeBase, SystemMessage(AskContent),
                           SystemMessage(Order1003Fact)>>
            /\ last_system_messages["order-lookup"] = Order1003Fact
            /\ ~awaiting_order_number)

\* the scenario: the flag was set by the first frame and cleared by the second
C11_Witness ==
    /\ injector_seen = AskThen1003
    /\ context[Len(context)] = SystemMessage(Order1003Fact)
    /\ ~awaiting_order_number
    /\ calls[1].tag = "order-knowledge-base"

\* C12: when the order number of a Downstream text frame differs from the
\* previous one and no such order exists, a fact naming that number is
\* injected under the tag "order-not-found", the other fields keep their
\* values, and the frame is forwarded as on every other path.
C12_OrderNotFoundInjected ==
    [][\A frame \in InjectorFrames :
      (Handles(frame) /\ CarriesNewNumber(frame) /\ ~OrderOf(frame).found) =>
        /\ InjectedUnder(
             "No order was found with number " \o Join(NumberOf(frame).number)
                 \o ". Tell the user you couldn't locate that order in the dataset, and politely ask them to confirm the digits or share a different order number. Do not guess any details.",
             "order-not-found")
        /\ awaiting_order_number' = awaiting_order_number
        /\ last_detected_order_number' = NumberOf(frame)
        /\ injector_pushed' = Append(injector_pushed, frame)]_vars

\* 9999 is not in the store: the notice is in the context, the frame went on
C12_Witness ==
    /\ injector_seen # <<>>
    /\ injector_seen[Len(injector_seen)] = TextFrame(Txt_9999, DOWNSTREAM)
    /\ last_detected_order_number = Found(<<"9", "9", "9", "9">>)
    /\ context[Len(context)] = SystemMessage(last_system_messages["order-not-found"])
    /\ injector_pushed = injector_seen

\* C13: for a non-empty Downstream text without an order number: if it shows
\* order intent and the awaiting flag is not set, the flag is set and the fact
\* asking for the number is injected under "order-knowledge-base"; if the
\* flag is already set, nothing is injected and no field changes.
C13_AskOnceWhileAwaiting ==
    [][\A frame \in InjectorFrames :
      (Handles(frame) /\ CarriesText(frame) /\ ~NumberOf(frame).found) =>
        /\ (DetectOrderIntent(TextOf(frame)) /\ ~awaiting_order_number) =>
             /\ awaiting_order_number'
             /\ InjectedUnder(AskContent, "order-knowledge-base")
        /\ awaiting_order_number =>
             UNCHANGED <<awaiting_order_number, last_detected_order_number,
                         context, last_system_messages, calls>>]_vars

\* intent twice in a row: the second frame found the flag set and did nothing
C13_Witness ==
    /\ injector_seen = <<TextFrame(Txt_ask, DOWNSTREAM), TextFrame(Txt_ask, DOWNSTREAM)>>
    /\ awaiting_order_number
    /\ Len(calls) = 1
    /\ context = <<KnowledgeBase, SystemMessage(AskContent)>>

\* ---- TranscriptionProcessor

\* a step in which the processor of the role handled the frame
RecorderHandles(role, frame) ==
    recorder_seen' = [recorder_seen EXCEPT ![role] = Append(@, frame)]

\* the hub gained exactly one entry, of the speaker and with the text
HubGained(speaker, txt) ==
    /\ Len(messages') = Len(messages) + 1
    /\ SubSeq(messages', 1, Len(messages)) = messages
    /\ messages'[Len(messages')].type = speaker
    /\ messages'[Len(messages')].message = txt

\* the user processor recorded the text frame: one entry, then one transport
\* message with the whole entry sequence Downstream, then the frame itself
RecordedByUser(frame) ==
    /\ HubGained("user", frame.text)
    /\ recorder_pushed'["user"] =
         recorder_pushed["user"]
           \o <<[kind |-> "OutputTransportMessageFrame", type |-> "transcription",
                 message |-> messages', direction |-> DOWNSTREAM],
                frame>>

\* C17 as stated: the user processor records every text chunk that flows
\* Downstream and does not record a text chunk that flows Upstream.
C17_UserRecordsDownstreamTextOnly ==
    [][\A frame \in RecorderFrames :
        (RecorderHandles("user", frame) /\ frame.kind = "TextFrame") =>
            IF frame.direction = DOWNSTREAM
            THEN RecordedByUser(frame)
            ELSE messages' = messages]_vars

\* C17, amended: the user processor records every text chunk, whichever way
\* it flows: exactly one entry with speaker user is appended to the hub and
\* exactly one transport message carrying the full entry sequence is emitted
\* Downstream, then the chunk is forwarded in its own direction; a frame that
\* is not a text chunk is only forwarded.
C17_UserRecordsEveryText ==
    [][\A frame \in RecorderFrames :
        RecorderHandles("user", frame) =>
            IF frame.kind = "TextFrame"
            THEN RecordedByUser(frame)
            ELSE /\ messages' = messages
                 /\ recorder_pushed'["user"] =
                      Append(recorder_pushed["user"], frame)]_vars

\* a text chunk flowing Upstream was recorded as a user entry
C17_Witness ==
    /\ recorder_seen["user"] = <<TextFrame(Str_lo, UPSTREAM)>>
    /\ recorder_seen["bot"] = <<>>
    /\ Len(messages) = 1
    /\ messages[1].type = "user"
    /\ messages[1].message = Str_lo
    /\ Len(recorder_pushed["user"]) = 2

\* the text chunks the bot processor got since its last BotStopped frame
RECURSIVE SinceFlush(_)
SinceFlush(frames) ==
    IF frames = <<>> THEN <<>>
    ELSE LET last == frames[Len(frames)]
             before == SubSeq(frames, 1, Len(frames) - 1)
         IN  IF last.kind = "BotStoppedSpeakingFrame" THEN <<>>
             ELSE IF last.kind = "TextFrame" THEN SinceFlush(before) \o last.text
             ELSE SinceFlush(before)

\* leading and trailing spaces removed
Trimmed(txt) ==
    IF \A k \in 1..Len(txt) : txt[k] = " " THEN <<>>
    ELSE SubSeq(txt,
                Min({k \in 1..Len(txt) : txt[k] # " "}),
                Max({k \in 1..Len(txt) : txt[k] # " "}))

\* C18: the bot processor only accumulates text chunks (no entry, no
\* transport message); on each BotStopped frame the hub gains exactly one bot
\* entry, the trimmed concatenation of the chunks since the previous flush,
\* when that text is not empty and nothing otherwise, and the buffer is empty
\* afterwards.
C18_BotFlushOnStop ==
    /\ [][\A frame \in RecorderFrames :
            RecorderHandles("bot", frame) =>
              /\ recorder_pushed'["bot"] = Append(recorder_pushed["bot"], frame)
              /\ IF frame.kind = "BotStoppedSpeakingFrame"
                 THEN /\ bot_buffer'["bot"] = <<>>
                      /\ IF Trimmed(SinceFlush(recorder_seen["bot"])) # <<>>
                         THEN HubGained("bot", Trimmed(SinceFlush(recorder_seen["bot"])))
                         ELSE messages' = messages
                 ELSE messages' = messages]_vars
    /\ [](bot_buffer["bot"] = SinceFlush(recorder_seen["bot"]))

\* "Hel", "lo", BotStopped, BotStopped: one entry "Hello", the second
\* BotStopped added nothing
C18_Witness ==
    /\ recorder_seen["bot"] =
         <<TextFrame(Str_Hel, DOWNSTREAM), TextFrame(Str_lo, DOWNSTREAM),
           OtherFrame("BotStoppedSpeakingFrame", DOWNSTREAM),
           OtherFrame("BotStoppedSpeakingFrame", DOWNSTREAM)>>
    /\ Len(messages) = 1
    /\ messages[1].type = "bot"
    /\ messages[1].message = <<"H", "e", "l", "l", "o">>
    /\ bot_buffer["bot"] = <<>>

\* ---- the custom stages

NotOriginated(frame) == frame.kind # "OutputTransportMessageFrame"

\* C14: each custom stage (audio logger, state tracker, order knowledge
\* injector, user and bot transcript recorder) has forwarded every frame it
\* was given exactly once, unchanged, in the direction it came with and in
\* the order of arrival; whatever else it pushed is a transport message of
\* its own.
C14_EveryFrameForwardedOnce ==
    /\ audio_pushed = audio_seen
    /\ SelectSeq(pushed, NotOriginated) = seen
    /\ injector_pushed = injector_seen
    /\ \A role \in Roles :
         SelectSeq(recorder_pushed[role], NotOriginated) = recorder_seen[role]

\* the injector was given a blank text (the early return of line 205) and
\* then a text with an order number (the return of line 242), and a recorder
\* pushed a message of its own, each with its frame forwarded
C14_Witness ==
    /\ injector_seen = <<TextFrame(Txt_blank, DOWNSTREAM),
                         TextFrame(Txt_1003, DOWNSTREAM)>>
    /\ injector_pushed = injector_seen
    /\ last_detected_order_number # NoMatch
    /\ recorder_seen["user"] = <<TextFrame(Txt_ask, DOWNSTREAM)>>
    /\ Len(recorder_pushed["user"]) = 2
    /\ recorder_pushed["user"][2] = TextFrame(Txt_ask, DOWNSTREAM)

\* ---------------------------------------------------------------- C19

KeyAbsent == groq_api_key \in {None, ""}
EndpointActs(s) == session'[s] # session[s]

\* the first step of the handler for a connection: it closes it with 1011
ClosesWith1011(s) ==
    /\ session[s] = NewSession
    /\ session'[s] = [NewSession EXCEPT !.pc = "refusing",
                                        !.stream = "closed",
                                        !.closes = <<1011>>]
\* the handler, waiting in that close, is left: by return or by an exception
LeftAfterClose(s) ==
    /\ session[s].pc = "refusing"
    /\ \E raised \in {None} \cup Raises :
          session'[s] = [session[s] EXCEPT !.pc = "finished", !.raised = raised]

\* C19: when the backend API key is absent, the voice endpoint closes the
\* connection with code 1011 without accepting it: the first step the endpoint
\* takes for a connection is that close, the only other step is that the
\* handler is left after it, and no step builds anything for the connection
\* or changes any stage or hub state; no connection is ever accepted or given
\* a pipeline, and every connection the handler has acted on has been closed
\* with 1011 and nothing else.
C19_MissingKeyClosesWith1011 ==
    /\ [][\A s \in VoiceSockets :
            (KeyAbsent /\ EndpointActs(s)) =>
                /\ ClosesWith1011(s) \/ LeftAfterClose(s)
                /\ UNCHANGED exceptEndpointVars]_vars
    /\ [](KeyAbsent => \A s \in VoiceSockets :
            /\ ~session[s].accepted
            /\ ~session[s].built
            /\ session[s].stream # "open"
            /\ session[s].pc # "idle" => /\ session[s].closes = <<1011>>
                                         /\ session[s].stream = "closed")

C19_Witness ==
    /\ groq_api_key = None
    /\ session["V1"].pc = "finished"
    /\ session["V1"].closes = <<1011>>
    /\ ~session["V1"].accepted
    /\ session["V2"].pc = "refusing"
    /\ session["V2"].closes = <<1011>>
    /\ session["V3"].pc = "idle"

\* ---------------------------------------------------------------- C20

\* C20: whenever the pipeline run of a voice session has ended, by return or
\* by an error, the error (if any) has been raised to the caller of the handler
\* and the session's stream is closed when the handler is over.
C20_StreamClosedWhenRunEnds ==
    \A s \in VoiceSockets :
        (session[s].built /\ session[s].pc = "finished") =>
            session[s].stream = "closed"

\* ---------------------------------------------------------------- C21

\* the stored items of an order whose product is in the store, in stored order
ListedRows(order_id) ==
    SelectSeq(OrderItems,
              LAMBDA row : row.order_id = order_id
                           /\ row.product_id \in DOMAIN Products)

\* C21: for every order of the store, the k-th item of the formatted summary
\* shows the subtotal quantity * unit_price of that item, and the summary's
\* total amount is the stored total of the order, whatever the subtotals sum to.
C21_SubtotalsAndStoredTotal ==
    summary.made =>
        LET rows == ListedRows(summary.order_id)
        IN  /\ summary.lines[4] =
                 "- Total Amount: "
                 \o Money(OrdersById[summary.order_id].total_amount)
            /\ Len(summary.lines) = 6 + (IF rows = <<>> THEN 1 ELSE 4 * Len(rows))
            /\ \A k \in 1..Len(rows) :
                 summary.lines[6 + 4 * k] =
                     "    Subtotal: "
                     \o Money(rows[k].quantity * rows[k].unit_price)

\* the summary of order 1003: subtotals 2 * 49.99 and 1 * 15.00, stored total
\* 110.03 although the subtotals sum to 114.98
C21_Witness ==
    /\ summary.made
    /\ summary.order_id = 1003
    /\ summary.lines[4] = "- Total Amount: $110.03"
    /\ summary.lines[10] = "    Subtotal: $99.98"
    /\ summary.lines[14] = "    Subtotal: $15.00"

\* ---------------------------------------------------------------- C22

StageRan(s) == pipes'[s] # pipes[s]

\* C22: a step of a stage of one voice session changes nothing of any other
\* session: its conversation state, last extracted number, awaiting flag,
\* system facts, context, bot buffers and queues stay as they are; what the
\* step may change besides its own session is the hub.
C22_SessionsAreIsolated ==
    [][\A s \in VoiceSessions : \A t \in VoiceSessions \ {s} :
          StageRan(s) => pipes'[t] = pipes[t]]_vars

\* session V1 was asked for the order number and has recorded the user's
\* text in the hub, session V2 has looked up order 1003 meanwhile
C22_Witness ==
    /\ pipes["V1"].awaiting
    /\ pipes["V1"].last_detected = NoMatch
    /\ pipes["V1"].recorded # <<>>
    /\ messages # <<>>
    /\ ~pipes["V2"].awaiting
    /\ pipes["V2"].last_detected = Found(<<"1", "0", "0", "3">>)
    /\ Len(pipes["V2"].context) = 2

\* ---------------------------------------------------------------- C23

\* every stage of the session has handled all it was given
Quiet(s) ==
    \A stage \in StageNames \ {"output"} : pipes[s].inbox[stage] = <<>>

\* the transport messages among the frames a session has emitted, the
\* timestamps of transcript entries left out
Untimed(entries) ==
    [i \in 1..Len(entries) |->
        [type |-> entries[i].type, message |-> entries[i].message]]
IsTransportMessage(frame) == frame.kind = "OutputTransportMessageFrame"
WithoutTime(frame) ==
    IF frame.type = "transcription"
    THEN [frame EXCEPT !.message = Untimed(@)]
    ELSE frame
TransportMessages(s) ==
    LET out == SelectSeq(pipes[s].inbox["output"], IsTransportMessage)
    IN  [i \in 1..Len(out) |-> WithoutTime(out[i])]
RepliesTo(s) ==
    [i \in 1..Len(pipes[s].llm_seen) |-> pipes[s].llm_seen[i].reply]

\* C23: the transport messages a voice session emits are determined by its
\* own inbound frames: two sessions that were given the same frames, got the
\* same answers from the llm and have handled them all have emitted the same
\* transport messages, whatever the other did meanwhile.
C23_OutputsFromOwnInputs ==
    \A s \in VoiceSessions : \A t \in VoiceSessions :
        (/\ pipes[s].inbound = pipes[t].inbound
         /\ RepliesTo(s) = RepliesTo(t)
         /\ Quiet(s) /\ Quiet(t))
        => TransportMessages(s) = TransportMessages(t)

\* ---------------------------------------------------------------- C28

\* C28: in every session the k-th text frame the user transcript recorder
\* gets, and the k-th the llm gets, is the k-th text frame the order knowledge
\* processor has handled, and the context at that moment already holds all
\* that the processor appended to it on account of that frame.
C28_InjectionPrecedesLlm ==
    \A s \in VoiceSessions :
        LET p == pipes[s]
        IN  /\ \A k \in 1..Len(p.recorded) :
                 /\ k <= Len(p.injected)
                 /\ p.recorded[k].frame = p.injected[k].frame
                 /\ IsPrefix(p.injected[k].context, p.recorded[k].context)
            /\ \A k \in 1..Len(p.llm_seen) :
                 /\ k <= Len(p.injected)
                 /\ p.llm_seen[k].frame = p.injected[k].frame
                 /\ IsPrefix(p.injected[k].context, p.llm_seen[k].context)

\* the llm of session V1 has got "what's my order status", the context
\* holding the request to ask for the order number
C28_Witness ==
    /\ Len(pipes["V1"].llm_seen) = 1
    /\ pipes["V1"].llm_seen[1].frame = TextFrame(Txt_ask, DOWNSTREAM)
    /\ pipes["V1"].llm_seen[1].context =
           <<KnowledgeBase, SystemMessage(AskContent)>>

\* ---------------------------------------------------------------- C24

\* C24: check_health answers status "healthy" with database "static-json"
\* exactly when the file is there and parses; with no file it answers
\* "unhealthy" / "missing", with a file that is not JSON "unhealthy" /
\* "invalid"; no failure to load is ever answered with "healthy".
C24_HealthReflectsDataset ==
    \A i \in 1..Len(health_checks) :
        LET file == health_checks[i].file
            got == health_checks[i].got
        IN  /\ (got.raised = None /\ got.status = "healthy") <=> file = "json"
            /\ file = "json" => got.database = "static-json"
            /\ file = "absent" =>
                   got.raised = None /\ got.status = "unhealthy"
                   /\ got.database = "missing"
            /\ file = "not json" =>
                   got.raised = None /\ got.status = "unhealthy"
                   /\ got.database = "invalid"
            /\ got.database = "static-json" => got.status = "healthy"

\* all three answers have been given
C24_Witness ==
    /\ Len(health_checks) = 3
    /\ health_checks[1].file = "json" /\ health_checks[1].got.status = "healthy"
    /\ health_checks[2].file = "absent"
    /\ health_checks[2].got.database = "missing"
    /\ health_checks[3].file = "not json"
    /\ health_checks[3].got.database = "invalid"

\* ---------------------------------------------------------------- C25

LookupTags == {"order-lookup", "order-not-found"}
CalledWith(tags) ==
    /\ Len(calls') = Len(calls) + 1
    /\ calls'[Len(calls')].tag \in tags

\* C25: when a Downstream text frame yields the order number extracted last,
\* nothing is looked up or injected and the context, the system facts, the
\* awaiting flag and the last number keep their values; a lookup result or a
\* not-found notice is injected only for a number that differs from the last.
C25_RepeatedNumberIsIgnored ==
    [][\A frame \in InjectorFrames :
        Handles(frame) =>
          /\ (/\ CarriesText(frame)
              /\ NumberOf(frame).found
              /\ NumberOf(frame) = last_detected_order_number)
             => UNCHANGED <<context, last_system_messages, calls,
                            awaiting_order_number, last_detected_order_number>>
          /\ CalledWith(LookupTags) => CarriesNewNumber(frame)]_vars

\* "order number is 1003" twice: one lookup, one message in the context
C25_Witness ==
    /\ injector_seen = <<TextFrame(Txt_1003, DOWNSTREAM),
                         TextFrame(Txt_1003, DOWNSTREAM)>>
    /\ Len(calls) = 1
    /\ context = <<KnowledgeBase, SystemMessage(Order1003Fact)>>
    /\ injector_pushed = injector_seen

\* ---------------------------------------------------------------- C26

\* C26: a Downstream text frame from which an order number is extracted,
\* new or repeated, of an existing order or not, never sets the awaiting flag
\* and never injects under "order-knowledge-base", whatever else the text
\* says; the frame is forwarded.
C26_NumberEndsProcessing ==
    [][\A frame \in InjectorFrames :
        (Handles(frame) /\ CarriesText(frame) /\ NumberOf(frame).found) =>
          /\ awaiting_order_number' => awaiting_order_number
          /\ ~CalledWith({"order-knowledge-base"})
          /\ last_system_messages'["order-knowledge-base"] =
                 last_system_messages["order-knowledge-base"]
          /\ injector_pushed' = Append(injector_pushed, frame)]_vars

\* "track my order 1001" twice: an order-status phrase with a number, first
\* new, then repeated; the flag was never set and nobody was asked
C26_Witness ==
    /\ injector_seen = <<TextFrame(Txt_track1001, DOWNSTREAM),
                         TextFrame(Txt_track1001, DOWNSTREAM)>>
    /\ DetectOrderIntent(Txt_track1001)
    /\ ~awaiting_order_number
    /\ last_system_messages["order-knowledge-base"] = None
    /\ last_detected_order_number = Found(<<"1", "0", "0", "1">>)

\* ---------------------------------------------------------------- C27

\* the finally block of some observer's handler runs in this step
HandlerCloses == \E w \in WebSockets : handler[w] # "closed" /\ handler'[w] = "closed"

\* C27: the entry sequence only grows at its end, except for the full clear
\* an observer's unsubscribe makes when it leaves the subscriber set empty:
\* every step keeps the entries there are, in their order, or empties the
\* sequence in a handler's exit that leaves no subscriber; add_message,
\* subscribe, a delivery and the removal after a failed send keep them all.
C27_AppendOnlyBetweenResets ==
    [][/\ \/ IsPrefix(messages, messages')
          \/ /\ messages' = <<>>
             /\ connections' = {}
             /\ HandlerCloses
       /\ (IsAddMessage \/ IsSendUpdate) => IsPrefix(messages, messages')
       /\ (\E w \in WebSockets :
               handler'[w] # handler[w] /\ handler'[w] \in {"sending", "receiving"})
            => messages' = messages]_vars

\* two entries were appended, one subscriber having joined after the first
\* and failed the delivery of the second: the two are there in the order of
\* their appends
C27_Witness ==
    /\ Len(messages) = 2
    /\ \A i \in 1..2 : messages[i].time = i
    /\ tasks = <<>>
    /\ \E w \in WebSockets :
          /\ join[w].joined /\ join[w].time = 1
          /\ w \notin connections
          /\ handler[w] = "receiving"

\* ---------------------------------------------------------------- C29

\* the four lines of each listed row, from the stored row and its product
RECURSIVE RowLines(_)
RowLines(rows) ==
    IF rows = <<>> THEN <<>>
    ELSE LET row == Head(rows)
         IN  <<"  - " \o Products[row.product_id].name,
               "    Quantity: " \o ToString(row.quantity),
               "    Price: " \o Money(row.unit_price) \o " each",
               "    Subtotal: " \o Money(row.quantity * row.unit_price)>>
             \o RowLines(Tail(rows))

\* the summary with the rows of missing products left out
SummaryWithoutMissing(order) ==
    JoinLines(
        <<"Order #" \o ToString(order.id) \o " Details:",
          "- Order Date: " \o order.order_date.date \o " " \o order.order_date.time,
          "- Status: " \o order.status,
          "- Total Amount: " \o Money(order.total_amount),
          "",
          "Items:">>
        \o (IF ListedRows(order.id) = <<>>
            THEN <<"  No items recorded for this order.">>
            ELSE RowLines(ListedRows(order.id))))

Order1001Fact ==
    "Order lookup result for order number 1001:\nOrder #1001 Details:\n- Order Date: 2024-03-01 10:30\n- Status: pending\n- Total Amount: $110.01\n\nItems:\n  No items recorded for this order.\nUse ONLY this data when responding. State the order status and delivery expectation exactly as shown, and mention key items only if needed. Never invent additional products, dates, or amounts. Hint for tone: Order 1001 is pending and awaiting processing. Let the customer know we'll update them once it starts moving."

\* C29: the summary injected under "order-lookup" for a newly mentioned
\* order lists the order's stored items whose product is in the store, in
\* stored order, and leaves out the items whose product is missing; the
\* lookup succeeds all the same, and an order none of whose items can be
\* listed gets the line "No items recorded for this order.".
C29_MissingProductSkipped ==
    [][\A frame \in InjectorFrames :
        (Handles(frame) /\ CarriesNewNumber(frame) /\ OrderOf(frame).found) =>
            LET order == OrderOf(frame).order
            IN  /\ InjectedUnder(
                     "Order lookup result for order number "
                         \o Join(NumberOf(frame).number) \o ":\n"
                         \o SummaryWithoutMissing(order) \o "\n"
                         \o "Use ONLY this data when responding. State the order status and delivery expectation exactly as shown, and mention key items only if needed. Never invent additional products, dates, or amounts."
                         \o " Hint for tone: Order " \o ToString(order.id) \o " "
                         \o StatusSummary(order.status),
                     "order-lookup")
                /\ injector_pushed' = Append(injector_pushed, frame)]_vars

\* order 1001, whose only item has no product, then order 1003, whose second
\* of three items has none: "No items" for the first, Keyboard and Mouse for
\* the second
C29_Witness ==
    /\ injector_seen = <<TextFrame(Txt_track1001, DOWNSTREAM),
                         TextFrame(Txt_1003, DOWNSTREAM)>>
    /\ context = <<KnowledgeBase, SystemMessage(Order1001Fact),
                   SystemMessage(Order1003Fact)>>
    /\ \E i \in 1..Len(OrderItems) :
          OrderItems[i].order_id = 1003
          /\ OrderItems[i].product_id \notin DOMAIN Products

\* ---------------------------------------------------------------- C30

\* the system messages of a context that are about an order
AboutAnOrder(msg) ==
    msg.role = "system" /\ msg.content \notin {AskContent, KnowledgeBase.content}
\* what is injected about the number of a frame
FactAbout(frame) ==
    IF OrderOf(frame).found
    THEN LookupContent(NumberOf(frame).number, OrderOf(frame).order)
    ELSE NotFoundContent(NumberOf(frame).number)

\* C30: after a Downstream text frame whose order number differs from the
\* one extracted before it, the last message about an order in the context is
\* the one about that number: its lookup result if the order exists, its
\* not-found notice otherwise.
C30_LatestOrderWins ==
    [][\A frame \in InjectorFrames :
        (Handles(frame) /\ CarriesNewNumber(frame)) =>
            LET about == SelectSeq(context', AboutAnOrder)
            IN  /\ about # <<>>
                /\ about[Len(about)].content = FactAbout(frame)]_vars

\* ---------------------------------------------------------------- C31

IsAsk(msg) == msg = SystemMessage(AskContent)
AskCalls == SelectSeq(calls, LAMBDA c : c.tag = "order-knowledge-base")

\* C31: the message asking for the order number is in a session's context
\* at most once, whatever frames the session gets, also when the awaiting
\* flag was cleared by a found order and the user asks for the status again.
C31_AskedAtMostOnce ==
    /\ Len(SelectSeq(context, IsAsk)) <= 1
    /\ \A i \in 1..Len(AskCalls) : AskCalls[i].content = AskContent

\* asked, order 1003 found (flag cleared), asked again: the flag is set a
\* second time, two calls were made, the context holds one such message
C31_Witness ==
    /\ injector_seen = <<TextFrame(Txt_ask, DOWNSTREAM),
                         TextFrame(Txt_1003, DOWNSTREAM),
                         TextFrame(Txt_ask, DOWNSTREAM)>>
    /\ awaiting_order_number
    /\ Len(AskCalls) = 2
    /\ Len(SelectSeq(context, IsAsk)) = 1

\* ---------------------------------------------------------------- C32

\* C32: the removal of a subscriber after a failed delivery leaves the
\* entries as they are, also when it leaves the subscriber set empty; a
\* non-empty entry sequence becomes empty only in a step in which an
\* observer's handler exits and finds the subscriber set empty.
C32_SendFailureKeepsTranscript ==
    [][/\ (IsFailedSend /\ connections' = {}) => messages' = messages
       /\ (messages # <<>> /\ messages' = <<>>) =>
             /\ ~IsFailedSend
             /\ HandlerCloses
             /\ connections' = {}]_vars

\* the only subscriber joined before the first entry and was removed by the
\* failed delivery of it: no subscriber is left, its handler still runs, and
\* the entry is there
C32_Witness ==
    /\ connections = {}
    /\ tasks = <<>>
    /\ messages # <<>> /\ messages[1].time = 1
    /\ \E w \in WebSockets :
          /\ join[w].joined /\ join[w].time = 0
          /\ handler[w] = "receiving"
          /\ received[w] = <<>>
    /\ \A w \in WebSockets : handler[w] # "closed"

\* ---------------------------------------------------------------- C33

\* the entries of msgs that were appended while no connection was in the set
AloneIn(msgs) == {msgs[k] : k \in {i \in 1..Len(msgs) : msgs[i].time \in alone}}
EntriesOf(msgs) == {msgs[k] : k \in 1..Len(msgs)}

\* those of them that no websocket has been sent
Unheard(msgs) ==
    {e \in AloneIn(msgs) :
        \A w \in WebSockets : \A i \in 1..Len(received[w]) : e \notin EntriesOf(received[w][i])}

\* websocket w is added to the set in this step
Subscribes(w) == handler[w] = "idle" /\ join'[w].joined
\* the first send to websocket w, of the entries there were when it was
\* added, returns in this step
SnapshotArrives(w) == handler[w] = "sending" /\ handler'[w] = "receiving"
\* add_message is called while the set is empty: the entry is appended and
\* no task is created
AppendsAlone ==
    (IsAddMessage /\ connections = {}) =>
        /\ Len(messages') = Len(messages) + 1
        /\ IsPrefix(messages, messages')
        /\ messages'[Len(messages')].time \in alone'
        /\ tasks' = tasks

\* C33 as stated: entries appended while the subscriber set is empty stay in
\* the sequence for as long as no subscriber is connected, whatever step is
\* taken other than the arrival of a connection, and the next connection that
\* subscribes and gets its first message is sent all of them in it.
C33_RetainedForNextSubscriber ==
    [][/\ AppendsAlone
       /\ connections = {} =>
             /\ (\A w \in WebSockets : ~Subscribes(w)) =>
                   Unheard(messages) \subseteq EntriesOf(messages')
             /\ \A w \in WebSockets :
                   Subscribes(w) => Unheard(messages) \subseteq EntriesOf(join'[w].messages)
       /\ \A w \in WebSockets :
             SnapshotArrives(w) => received'[w] = Append(received[w], join[w].messages)]_vars

\* C33, amended: entries appended while the subscriber set is empty are kept
\* by every step in which no observer's handler exits (add_message, a
\* delivery, a failed delivery, a subscribe whose first send succeeds), and a
\* connection that subscribes with a successful first send is sent the whole
\* sequence, those entries included; they go only in the full clear of a
\* handler's exit that finds the set empty.
C33_RetainedUntilHandlerExit ==
    [][/\ AppendsAlone
       /\ ~HandlerCloses => AloneIn(messages) \subseteq EntriesOf(messages')
       /\ \A w \in WebSockets :
             /\ Subscribes(w) =>
                   /\ join'[w].messages = messages
                   /\ messages # <<>> => handler'[w] = "sending"
             /\ SnapshotArrives(w) =>
                   /\ join[w].messages # <<>>
                   /\ received'[w] = Append(received[w], join[w].messages)
       /\ ~(AloneIn(messages) \subseteq EntriesOf(messages')) =>
             messages' = <<>> /\ connections' = {}]_vars

\* two entries were appended to a hub nobody had subscribed to, and the first
\* websocket to subscribe was sent the two of them
C33_Witness ==
    \E w \in WebSockets :
        /\ connections = {w}
        /\ \A v \in WebSockets \ {w} : ~join[v].joined
        /\ join[w].joined /\ ~join[w].failed
        /\ Len(join[w].messages) = 2
        /\ AloneIn(join[w].messages) = EntriesOf(join[w].messages)
        /\ received[w] = <<join[w].messages>>
        /\ messages = join[w].messages

\* ---------------------------------------------------------------- C34

\* the frames pushed by the step that processes a frame
NewlyPushed == SubSeq(pushed', Len(pushed) + 1, Len(pushed'))
\* the state a bot frame stands for
BotState(kind) == IF kind = "BotStartedSpeakingFrame" THEN "responding" ELSE "listening"

\* C34: a StartFrame, UserStartedSpeakingFrame or UserStoppedSpeakingFrame
\* travelling Upstream changes no state and is only forwarded; a
\* BotStartedSpeakingFrame or BotStoppedSpeakingFrame sets its state in either
\* direction, with a notification when the state changes; every state
\* notification is pushed Downstream, whatever the direction of the frame.
C34_DirectionSensitivity ==
    [][\A frame \in Frames :
        seen' = Append(seen, frame) =>
            /\ (/\ frame.kind \in {"StartFrame", "UserStartedSpeakingFrame",
                                   "UserStoppedSpeakingFrame"}
                /\ frame.direction = UPSTREAM) =>
                   state' = state /\ NewlyPushed = <<frame>>
            /\ frame.kind \in {"BotStartedSpeakingFrame", "BotStoppedSpeakingFrame"} =>
                   /\ state' = BotState(frame.kind)
                   /\ state # state' =>
                         /\ Len(NewlyPushed) = 2
                         /\ NewlyPushed[1].kind = "OutputTransportMessageFrame"
                         /\ NewlyPushed[1].value = state'
                         /\ NewlyPushed[2] = frame
            /\ \A i \in 1..Len(NewlyPushed) :
                   NewlyPushed[i].kind = "OutputTransportMessageFrame" =>
                       NewlyPushed[i].direction = DOWNSTREAM]_vars

\* after the session start, a UserStoppedSpeakingFrame going Upstream left the
\* state at listening and a BotStartedSpeakingFrame going Upstream set it to
\* responding, notified Downstream
C34_Witness ==
    /\ Len(seen) = 3
    /\ seen[1] = [kind |-> "StartFrame", direction |-> DOWNSTREAM]
    /\ seen[2] = [kind |-> "UserStoppedSpeakingFrame", direction |-> UPSTREAM]
    /\ seen[3] = [kind |-> "BotStartedSpeakingFrame", direction |-> UPSTREAM]
    /\ state = "responding"
    /\ pushed = <<StateMessage("listening"), seen[1], seen[2],
                  StateMessage("responding"), seen[3]>>

\* ---------------------------------------------------------------- C35

\* the frames the user processor pushed in the step that processes a frame
NewlyPushedByUser ==
    SubSeq(recorder_pushed'["user"], Len(recorder_pushed["user"]) + 1,
           Len(recorder_pushed'["user"]))

\* in a sequence of pushed frames every transport message is followed by a
\* frame that is not one
MessageThenFrame(out) ==
    \A i \in 1..Len(out) :
        IsTransportMessage(out[i]) => (i < Len(out) /\ ~IsTransportMessage(out[i + 1]))

\* C35: the state processor and the user transcription processor push the
\* transport message they make in reaction to a frame (state notification,
\* transcript snapshot) Downstream before they forward that frame: the pushes
\* of one process_frame call are the message, then the frame, and in the
\* whole output every such message is directly followed by its frame.
C35_NotificationBeforeFrame ==
    /\ [][\A frame \in StageFrames :
            /\ seen' = Append(seen, frame) =>
                  IF state' # state
                  THEN NewlyPushed = <<StateMessage(state'), frame>>
                  ELSE NewlyPushed = <<frame>>
            /\ RecorderHandles("user", frame) =>
                  IF frame.kind = "TextFrame"
                  THEN /\ Len(NewlyPushedByUser) = 2
                       /\ IsTransportMessage(NewlyPushedByUser[1])
                       /\ NewlyPushedByUser[1].direction = DOWNSTREAM
                       /\ NewlyPushedByUser[2] = frame
                  ELSE NewlyPushedByUser = <<frame>>]_vars
    /\ [](MessageThenFrame(pushed) /\ MessageThenFrame(recorder_pushed["user"]))

\* the state processor got a bot frame and pushed the notification, then the
\* frame; the user processor got a text frame and pushed the snapshot, then
\* the frame
C35_Witness ==
    /\ Len(seen) = 1 /\ Len(pushed) = 2
    /\ pushed[1] = StateMessage(state) /\ pushed[2] = seen[1]
    /\ Len(recorder_seen["user"]) = 1 /\ Len(recorder_pushed["user"]) = 2
    /\ IsTransportMessage(recorder_pushed["user"][1])
    /\ recorder_pushed["user"][2] = recorder_seen["user"][1]

====
